---- MODULE Spec2Model ----
(***************************************************************************)
(* A model of lox-python: the BufferedIterator (the spec's LookaheadBuffer)*)
(* of buffered_iterator.py and the tree-walking Interpreter of             *)
(* interpreter.py / expression_evaluator.py.                               *)
(*                                                                         *)
(* The front end is modelled as well: the CharReader of charreader.py, the *)
(* token_generator of token_generator.py and the recursive-descent parser  *)
(* of parser.py.                                                           *)
(*                                                                         *)
(* SpecBuffer   one BufferedIterator over a producer, driven by arbitrary  *)
(*              calls of has_next / next / can_peek / peek / eat.          *)
(* SpecInterp   one Interpreter instance on which interpret() is called    *)
(*              repeatedly; a call executes its program one declaration   *)
(*              at a time.                                                 *)
(* SpecBounded  a BufferedIterator and a CharReader that are read to their *)
(*              end.                                                       *)
(* SpecLexer    token_generator over a character stream, one token at a    *)
(*              time.                                                      *)
(* SpecParser   parse_program over a token stream.                         *)
(* SpecEvaluate evaluate_expression over the expression parsed from a      *)
(*              token stream.                                              *)
(* SpecPipeline interpret() from the tokens of its code on: parse_program  *)
(*              and then the execution of the Program.                     *)
(***************************************************************************)
EXTENDS Integers, Sequences, FiniteSets, TLC

VARIABLES
    \* ---- BufferedIterator (buffered_iterator.py) ----
    iter,       \* self._iter: what the producer has still to deliver
    bufsize,    \* self._bufsize
    buffer,     \* self._buffer: deque of elements and deferred exceptions
    last,       \* the most recent call on the iterator and its outcome
    source,     \* history: everything the producer was going to deliver
    consumed,   \* history: the slots popped from the buffer so far, in order
    \* ---- Interpreter (interpreter.py) ----
    scopes,     \* self._scopes: the stack of scopes, the global one first
    ctrl,       \* the call stack of interpret(): one frame per declaration
                \* list being executed (the program, a block, an if branch)
    status,     \* "idle" (the caller is between two calls), or where the
                \* current interpret() call is: "running", "raising" (an
                \* exception is propagating), "returned", "raised"
    error,      \* the exception that is propagating or was raised
    output,     \* what the current interpret() call has printed
    prog,       \* the Program the current interpret() call parsed
    calls,      \* number of interpret() calls made on this instance
    scopes0,    \* history: self._scopes when the current call began
    \* ---- CharReader (charreader.py) ----
    reader,     \* the CharReader instance: _line_iter, _char_iter, _buffer,
                \* _bufsize, _last_processed_state
    lines,      \* history: the lines the reader was constructed over
    rout,       \* history: the characters next() has returned, in order
    \* ---- token_generator (token_generator.py) ----
    lexpc,      \* where the generator is: "off", "loop" (at the head of its
                \* while loop), "scan" (about to scan a token), "done"
                \* (returned), "raised"
    tokens,     \* the tokens yielded so far
    lexerr,     \* the message of the ScannerError the generator raised
    \* ---- parse_program (parser.py) ----
    ptoks,      \* the token stream handed to the parser
    parsed,     \* what parse_program returned or raised
    evaluated   \* what evaluate_expression returned or raised on the
                \* expression parse_expression made of the token stream

bufVars == <<iter, bufsize, buffer, last, source, consumed>>

interpVars == <<scopes, ctrl, status, error, output, prog, calls, scopes0>>

charVars == <<reader, lines, rout>>

lexVars == <<lexpc, tokens, lexerr>>

parseVars == <<ptoks, parsed, evaluated>>

frontVars ==
    <<reader, lines, rout, lexpc, tokens, lexerr, ptoks, parsed, evaluated>>

vars == <<iter, bufsize, buffer, last, source, consumed,
          scopes, ctrl, status, error, output, prog, calls, scopes0,
          reader, lines, rout, lexpc, tokens, lexerr, ptoks, parsed,
          evaluated>>

-----------------------------------------------------------------------------
(* Bounds of the BufferedIterator model. *)

\* Longest producer sequence.
MaxLen == 3

\* Number of distinct valid element values the producer can yield.
NumVals == 2

\* Largest buffer size.
MaxBufsize == 2

-----------------------------------------------------------------------------
(* Slots and outcomes.  A slot of the buffer holds either an element or an *)
(* exception raised by the producer (Deque[T | Exception]).  The producer's *)
(* i-th delivery, when it is an exception, is the exception object Err(i):  *)
(* every raise creates its own object.                                      *)

Val(v) == [kind |-> "val", v |-> v]

Err(i) == [kind |-> "err", v |-> i]

\* What a call can do besides returning an element or raising a deferred
\* exception.
StopIteration == [kind |-> "StopIteration", v |-> 0]

ValueError == [kind |-> "ValueError", v |-> 0]

Bool(b) == [kind |-> "bool", v |-> IF b THEN 1 ELSE 0]

NoCall == [op |-> "init", arg |-> 0, out |-> Bool(TRUE)]

\* The producers: every sequence of at most MaxLen deliveries, each an
\* element 1..NumVals or a raise.  A Python generator ends at its first
\* raise (the sequences whose only raise is the last delivery); an
\* iterator object may go on delivering after one.
Sources ==
    UNION { { [i \in 1..n |-> IF c[i] = 0 THEN Err(i) ELSE Val(c[i])]
              : c \in [1..n -> 0..NumVals] } : n \in 0..MaxLen }

\* next(self._iter): the next delivery, or StopIteration at the end.
IterNext(it) ==
    IF it = <<>>
    THEN [out |-> StopIteration, iter |-> it]
    ELSE [out |-> Head(it), iter |-> Tail(it)]

\* A refill that puts what it pulls at the head of the buffer (appendleft).
RECURSIVE RefillAppendsLeft(_, _, _)
RefillAppendsLeft(buf, it, size) ==
    IF Len(buf) >= size
    THEN [buffer |-> buf, iter |-> it]
    ELSE IF it = <<>>
    THEN [buffer |-> buf, iter |-> it]
    ELSE RefillAppendsLeft(<<Head(it)>> \o buf, Tail(it), size)

\* BufferedIterator._refill_buffer: pull until the buffer holds bufsize
\* slots or the producer ends; an exception of the producer is appended
\* as a slot, and the loop goes on.
RECURSIVE _refill_buffer(_, _, _)
_refill_buffer(buf, it, size) ==
    IF Len(buf) >= size
    THEN [buffer |-> buf, iter |-> it]
    ELSE LET r == IterNext(it)
         IN  IF r.out.kind = "StopIteration"
             THEN [buffer |-> buf, iter |-> r.iter]
             ELSE _refill_buffer(Append(buf, r.out), r.iter, size)

\* BufferedIterator.__init__
BufferedIterator_init ==
    /\ source \in Sources
    /\ bufsize \in 1..MaxBufsize
    /\ LET r == _refill_buffer(<<>>, source, bufsize)
       IN  /\ buffer = r.buffer
           /\ iter = r.iter
    /\ last = NoCall
    /\ consumed = <<>>

\* BufferedIterator.has_next
has_next ==
    /\ last' = [op |-> "has_next", arg |-> 0, out |-> Bool(buffer # <<>>)]
    /\ UNCHANGED <<iter, bufsize, buffer, source, consumed, interpVars, frontVars>>

\* A next() whose refill is not guarded: an exception the producer raises
\* while the buffer is refilled escapes from this call, and the popped
\* element is lost.
NextResultUnguardedRefill(buf, it, size) ==
    IF buf = <<>>
    THEN [out |-> StopIteration, buffer |-> buf, iter |-> it, popped |-> <<>>]
    ELSE LET r == _refill_buffer(Tail(buf), it, size)
             new == {i \in Len(buf)..Len(r.buffer) : r.buffer[i].kind = "err"}
         IN  IF new # {}
             THEN LET i == CHOOSE j \in new : \A k \in new : j <= k
                  IN  [out |-> r.buffer[i],
                       buffer |-> SubSeq(r.buffer, 1, i - 1),
                       iter |-> SubSeq(r.buffer, i + 1, Len(r.buffer)) \o r.iter,
                       popped |-> <<Head(buf)>>]
             ELSE [out |-> Head(buf), buffer |-> r.buffer, iter |-> r.iter,
                   popped |-> <<Head(buf)>>]

\* A next() that raises a deferred error before popping it.
NextResultKeepsError(buf, it, size) ==
    IF buf = <<>>
    THEN [out |-> StopIteration, buffer |-> buf, iter |-> it, popped |-> <<>>]
    ELSE IF Head(buf).kind = "err"
    THEN [out |-> Head(buf), buffer |-> buf, iter |-> it, popped |-> <<>>]
    ELSE LET r == _refill_buffer(Tail(buf), it, size)
         IN  [out |-> Head(buf), buffer |-> r.buffer, iter |-> r.iter,
              popped |-> <<Head(buf)>>]

\* The outcome of BufferedIterator.next on a buffer: the popped slot is
\* returned when it is an element and raised when it is an exception.
NextResult(buf, it, size) ==
    IF buf = <<>>
    THEN [out |-> StopIteration, buffer |-> buf, iter |-> it, popped |-> <<>>]
    ELSE LET r == _refill_buffer(Tail(buf), it, size)
         IN  [out |-> Head(buf), buffer |-> r.buffer, iter |-> r.iter,
              popped |-> <<Head(buf)>>]

\* BufferedIterator.next
next ==
    LET r == NextResult(buffer, iter, bufsize)
    IN  /\ buffer' = r.buffer
        /\ iter' = r.iter
        /\ consumed' = consumed \o r.popped
        /\ last' = [op |-> "next", arg |-> 0, out |-> r.out]
        /\ UNCHANGED <<bufsize, source, interpVars, frontVars>>

\* A can_peek without the check of pos against the buffer size.
CanPeekResultNoSizeCheck(buf, size, pos) ==
    IF pos < 0 THEN ValueError
    ELSE Bool(pos < Len(buf))

\* The outcome of BufferedIterator.can_peek(pos).
CanPeekResult(buf, size, pos) ==
    IF pos < 0 THEN ValueError
    ELSE IF pos >= size THEN ValueError
    ELSE Bool(pos < Len(buf))

\* BufferedIterator.can_peek
can_peek(pos) ==
    /\ last' = [op |-> "can_peek", arg |-> pos,
                out |-> CanPeekResult(buffer, bufsize, pos)]
    /\ UNCHANGED <<iter, bufsize, buffer, source, consumed, interpVars, frontVars>>

\* The outcome of BufferedIterator.peek(pos).
PeekResult(buf, size, pos) ==
    IF pos < 0 THEN ValueError
    ELSE IF pos >= size THEN ValueError
    ELSE IF pos >= Len(buf) THEN StopIteration
    ELSE buf[pos + 1]

\* A peek that pops the slot it reads when the slot holds a deferred error.
peekPopsError(pos) ==
    LET out == PeekResult(buffer, bufsize, pos)
    IN  /\ last' = [op |-> "peek", arg |-> pos, out |-> out]
        /\ buffer' = IF out.kind = "err"
                     THEN SubSeq(buffer, 1, pos) \o
                          SubSeq(buffer, pos + 2, Len(buffer))
                     ELSE buffer
        /\ UNCHANGED <<iter, bufsize, source, consumed, interpVars, frontVars>>

\* BufferedIterator.peek
peek(pos) ==
    /\ last' = [op |-> "peek", arg |-> pos,
                out |-> PeekResult(buffer, bufsize, pos)]
    /\ UNCHANGED <<iter, bufsize, buffer, source, consumed, interpVars, frontVars>>

\* An eat that advances the iterator whatever element is at the head.
EatResultAlwaysAdvances(buf, it, size, val) ==
    IF buf = <<>>
    THEN [out |-> Bool(FALSE), buffer |-> buf, iter |-> it, popped |-> <<>>]
    ELSE LET p == PeekResult(buf, size, 0)
         IN  IF p.kind # "val"
             THEN [out |-> p, buffer |-> buf, iter |-> it, popped |-> <<>>]
             ELSE LET r == NextResult(buf, it, size)
                  IN  [out |-> Bool(p.v = val), buffer |-> r.buffer,
                       iter |-> r.iter, popped |-> r.popped]

\* An eat that reads the head with next(): a deferred error at the head is
\* raised and consumed.
EatResultConsumesError(buf, it, size, val) ==
    IF buf = <<>>
    THEN [out |-> Bool(FALSE), buffer |-> buf, iter |-> it, popped |-> <<>>]
    ELSE LET p == PeekResult(buf, size, 0)
         IN  IF p.kind # "val"
             THEN LET r == NextResult(buf, it, size)
                  IN  [out |-> p, buffer |-> r.buffer, iter |-> r.iter,
                       popped |-> r.popped]
             ELSE IF p.v = val
             THEN LET r == NextResult(buf, it, size)
                  IN  [out |-> Bool(TRUE), buffer |-> r.buffer,
                       iter |-> r.iter, popped |-> r.popped]
             ELSE [out |-> Bool(FALSE), buffer |-> buf, iter |-> it,
                   popped |-> <<>>]

\* The outcome of BufferedIterator.eat(val): False on an empty buffer;
\* self.peek(0) raises the head slot's exception; on a match self.next()
\* consumes the head.
EatResult(buf, it, size, val) ==
    IF buf = <<>>
    THEN [out |-> Bool(FALSE), buffer |-> buf, iter |-> it, popped |-> <<>>]
    ELSE LET p == PeekResult(buf, size, 0)
         IN  IF p.kind # "val"
             THEN [out |-> p, buffer |-> buf, iter |-> it, popped |-> <<>>]
             ELSE IF p.v = val
             THEN LET r == NextResult(buf, it, size)
                  IN  [out |-> Bool(TRUE), buffer |-> r.buffer,
                       iter |-> r.iter, popped |-> r.popped]
             ELSE [out |-> Bool(FALSE), buffer |-> buf, iter |-> it,
                   popped |-> <<>>]

\* BufferedIterator.eat
eat(val) ==
    LET r == EatResult(buffer, iter, bufsize, val)
    IN  /\ buffer' = r.buffer
        /\ iter' = r.iter
        /\ consumed' = consumed \o r.popped
        /\ last' = [op |-> "eat", arg |-> val, out |-> r.out]
        /\ UNCHANGED <<bufsize, source, interpVars, frontVars>>

-----------------------------------------------------------------------------
(* The CharReader of charreader.py.  It reads characters from successive   *)
(* lines; a line is a sequence of characters.  A slot of its buffer is a   *)
(* _ReadCharState: the character with the line and column it was read at.  *)

\* Longest sequence of lines a CharReader is constructed over.
MaxLines == 2

\* Longest line.
MaxLineLen == 2

\* The characters of the lines.
LineChars == {"a", "\n"}

\* The line sequences: empty lines, lines with and without a newline.
LineSeqs ==
    LET Lines == UNION {[1..n -> LineChars] : n \in 0..MaxLineLen}
    IN  UNION {[1..n -> Lines] : n \in 0..MaxLines}

\* self._char_iter = None
NoCharIter == [open |-> FALSE, chars |-> <<>>]

\* self._last_processed_state = None
NoState == [set |-> FALSE, line_no |-> 0, col_no |-> 0]

\* CharReader._advance_line: load the next non-empty line; at the end of
\* the lines _char_iter is None.
RECURSIVE CharReader_advance_line(_)
CharReader_advance_line(c) ==
    IF c.line_iter = <<>>
    THEN [c EXCEPT !.char_iter = NoCharIter]
    ELSE LET line == Head(c.line_iter)
             c1 == [c EXCEPT !.line_iter = Tail(@),
                             !.state = [set |-> TRUE,
                                        line_no |-> c.state.line_no + 1,
                                        col_no |-> 0]]
         IN  IF line = <<>>
             THEN CharReader_advance_line(c1)
             ELSE [c1 EXCEPT !.char_iter = [open |-> TRUE, chars |-> line]]

\* A refill that returns at the end of the current line instead of going on
\* with the next line.
RECURSIVE RefillStopsAtLineEnd(_)
RefillStopsAtLineEnd(c) ==
    IF Len(c.buffer) >= c.bufsize THEN c
    ELSE IF ~c.char_iter.open THEN c
    ELSE IF c.char_iter.chars = <<>> THEN c
    ELSE LET st == [c.state EXCEPT !.col_no = @ + 1]
         IN  RefillStopsAtLineEnd(
                 [c EXCEPT !.char_iter.chars = Tail(@),
                           !.state = st,
                           !.buffer = Append(@, [char |-> Head(c.char_iter.chars),
                                                 line_no |-> st.line_no,
                                                 col_no |-> st.col_no])])

\* CharReader._refill_buffer: read characters until the buffer holds
\* _bufsize of them or the input has ended.
RECURSIVE CharReader_refill_buffer(_)
CharReader_refill_buffer(c) ==
    IF Len(c.buffer) >= c.bufsize THEN c
    ELSE IF ~c.char_iter.open THEN c
    ELSE IF c.char_iter.chars = <<>>
    THEN CharReader_refill_buffer(CharReader_advance_line(c))
    ELSE LET st == [c.state EXCEPT !.col_no = @ + 1]
         IN  CharReader_refill_buffer(
                 [c EXCEPT !.char_iter.chars = Tail(@),
                           !.state = st,
                           !.buffer = Append(@, [char |-> Head(c.char_iter.chars),
                                                 line_no |-> st.line_no,
                                                 col_no |-> st.col_no])])

\* CharReader(line_iter, size), for size >= 1.
CharReader(line_iter, size) ==
    CharReader_refill_buffer(CharReader_advance_line(
        [line_iter |-> line_iter, char_iter |-> NoCharIter, buffer |-> <<>>,
         bufsize |-> size, state |-> NoState]))

\* Where diagnostic_string() puts its arrow: line line_no, column col_no;
\* known is FALSE for the text that says the position cannot be determined.
ArrowAt(line_no, col_no) == [known |-> TRUE, line_no |-> line_no, col_no |-> col_no]

CantDeterminePosition == [known |-> FALSE, line_no |-> 0, col_no |-> 0]

\* CharReader.diagnostic_string: the diagnostics of the head slot; on an
\* empty buffer those of _last_processed_state, when there is one.
CharReader_diagnostic_string(c) ==
    IF c.buffer # <<>>
    THEN ArrowAt(Head(c.buffer).line_no, Head(c.buffer).col_no)
    ELSE IF c.state.set
    THEN ArrowAt(c.state.line_no, c.state.col_no)
    ELSE CantDeterminePosition

\* CharReader.can_peek(offset), for offset >= 0
CharReader_can_peek(c, offset) == offset <= Len(c.buffer) - 1

\* def __init__(self, line_iter, bufsize: int = 1)
CharReaderDefaultBufsize == 1

\* The CharReader that interpret() builds over its code: CharReader(code)
interpret_CharReader(code) == CharReader(code, CharReaderDefaultBufsize)

\* CharReader.__init__
CharReader_init ==
    /\ lines \in LineSeqs
    /\ \E size \in 1..MaxBufsize : reader = CharReader(lines, size)
    /\ rout = <<>>

\* CharReader.next: StopIteration on an empty buffer; otherwise the head
\* character is returned and the buffer refilled.
CharReader_next ==
    /\ reader.buffer # <<>>
    /\ reader' = CharReader_refill_buffer([reader EXCEPT !.buffer = Tail(@)])
    /\ rout' = Append(rout, Head(reader.buffer).char)
    /\ UNCHANGED <<lines, bufVars, interpVars, lexVars, parseVars>>

\* No CharReader is in use: one over no lines.
CharReader_unused ==
    /\ lines = <<>>
    /\ reader = CharReader(<<>>, 1)
    /\ rout = <<>>

-----------------------------------------------------------------------------
(* The syntax tree (syntax.py).  Every node is a record of one shape: its    *)
(* class t, a name or string n, a number v, and its children kids.           *)

Node(t, n, v, kids) == [t |-> t, n |-> n, v |-> v, kids |-> kids]

Number(v) == Node("Number", "", v, <<>>)

String(s) == Node("String", s, 0, <<>>)

TrueExpr == Node("TrueExpr", "", 0, <<>>)

FalseExpr == Node("FalseExpr", "", 0, <<>>)

Nil == Node("Nil", "", 0, <<>>)

Variable(name) == Node("Variable", name, 0, <<>>)

Grouping(e) == Node("Grouping", "", 0, <<e>>)

Negative(e) == Node("Negative", "", 0, <<e>>)

LogicalNot(e) == Node("LogicalNot", "", 0, <<e>>)

Mult(l, r) == Node("Mult", "", 0, <<l, r>>)

Div(l, r) == Node("Div", "", 0, <<l, r>>)

Add(l, r) == Node("Add", "", 0, <<l, r>>)

Subtract(l, r) == Node("Subtract", "", 0, <<l, r>>)

LessThanExpr(l, r) == Node("LessThanExpr", "", 0, <<l, r>>)

LessEqualExpr(l, r) == Node("LessEqualExpr", "", 0, <<l, r>>)

GreaterThanExpr(l, r) == Node("GreaterThanExpr", "", 0, <<l, r>>)

GreaterEqualExpr(l, r) == Node("GreaterEqualExpr", "", 0, <<l, r>>)

EqualEqualExpr(l, r) == Node("EqualEqualExpr", "", 0, <<l, r>>)

NotEqualExpr(l, r) == Node("NotEqualExpr", "", 0, <<l, r>>)

LogicalAnd(l, r) == Node("LogicalAnd", "", 0, <<l, r>>)

LogicalOr(l, r) == Node("LogicalOr", "", 0, <<l, r>>)

Assignment(target, e) == Node("Assignment", target, 0, <<e>>)

PrintStmt(e) == Node("PrintStmt", "", 0, <<e>>)

ExprStmt(e) == Node("ExprStmt", "", 0, <<e>>)

\* VarDecl(name, None)
VarDeclNone(name) == Node("VarDecl", name, 0, <<>>)

\* VarDecl(name, expr)
VarDecl(name, e) == Node("VarDecl", name, 0, <<e>>)

BlockStmt(declarations) == Node("BlockStmt", "", 0, declarations)

\* IfStmt(condition, then_branch, None)
IfStmt(c, thenBranch) == Node("IfStmt", "", 0, <<c, thenBranch>>)

\* IfStmt(condition, then_branch, else_branch)
IfElseStmt(c, thenBranch, elseBranch) ==
    Node("IfStmt", "", 0, <<c, thenBranch, elseBranch>>)

WhileStmt(c, body) == Node("WhileStmt", "", 0, <<c, body>>)

-----------------------------------------------------------------------------
(* Runtime values: bool | float | str | None.  A float is held as the       *)
(* fraction p/q in lowest terms with q > 0, so that / is not rounded to an  *)
(* integer.                                                                 *)

RECURSIVE Gcd(_, _)
Gcd(a, b) == IF b = 0 THEN a ELSE Gcd(b, a % b)

Abs(a) == IF a < 0 THEN -a ELSE a

Float(p, q) ==
    LET sp == IF q < 0 THEN -p ELSE p
        sq == Abs(q)
        g == Gcd(Abs(sp), sq)
    IN  [k |-> "float", p |-> sp \div g, q |-> sq \div g, s |-> ""]

Str(s) == [k |-> "str", p |-> 0, q |-> 1, s |-> s]

PyBool(b) == [k |-> "bool", p |-> IF b THEN 1 ELSE 0, q |-> 1, s |-> ""]

None == [k |-> "None", p |-> 0, q |-> 1, s |-> ""]

\* The entry of a name a scope's dict does not hold.
Unbound == [k |-> "unbound", p |-> 0, q |-> 1, s |-> ""]

\* The variable names of the programs.
Names == {"x", "y"}

\* {} : a scope that binds nothing.
EmptyScope == [n \in Names |-> Unbound]

-----------------------------------------------------------------------------
(* The scope stack (interpreter.py).  A scope is a dict, here a function    *)
(* from the names to their values or Unbound.                               *)

\* Interpreter._get_current_scope
_get_current_scope(sc) == sc[Len(sc)]

\* Interpreter._push_scope
_push_scope(sc) == Append(sc, EmptyScope)

\* Interpreter._pop_scope
_pop_scope(sc) == SubSeq(sc, 1, Len(sc) - 1)

\* The scopes that hold name, by their index in the stack.
Holders(sc, name) == {i \in 1..Len(sc) : sc[i][name] # Unbound}

\* for scope in reversed(self._scopes): if name in scope: the innermost
\* scope that holds name.
Innermost(sc, name) ==
    CHOOSE i \in Holders(sc, name) : \A j \in Holders(sc, name) : j <= i

\* ScopedVars.__contains__: _get_variable does not raise KeyError.
Contains(sc, name) == Holders(sc, name) # {}

\* Interpreter._get_variable / ScopedVars.__getitem__, for a name that is
\* held.
_get_variable(sc, name) == sc[Innermost(sc, name)][name]

\* Interpreter._set_variable, for a name that is held.
_set_variable(sc, name, value) ==
    [sc EXCEPT ![Innermost(sc, name)][name] = value]

\* A declaration that goes through the assignment path: it overwrites the
\* nearest binding of the name where there is one.
DeclareThroughSetitem(sc, name, value) ==
    IF Contains(sc, name)
    THEN _set_variable(sc, name, value)
    ELSE [sc EXCEPT ![Len(sc)][name] = value]

\* Interpreter._declare_variable
_declare_variable(sc, name, value) == [sc EXCEPT ![Len(sc)][name] = value]

\* A __setitem__ that always binds in the current scope.
SetitemDeclares(sc, name, value) == _declare_variable(sc, name, value)

\* ScopedVars.__setitem__: _set_variable, and on KeyError _declare_variable.
ScopedVars_setitem(sc, name, value) ==
    IF Contains(sc, name)
    THEN _set_variable(sc, name, value)
    ELSE _declare_variable(sc, name, value)

-----------------------------------------------------------------------------
(* evaluate_expression (expression_evaluator.py).  The result is the value  *)
(* or the exception raised, with the scopes as the evaluation left them:    *)
(* an assignment evaluated before a raise has taken effect.                 *)

\* Position of a character: Diagnostics(line_no, col_no, line), without the
\* text of the line.
Diagnostics(line_no, col_no) == [line |-> line_no, col |-> col_no]

\* Diagnostics.next_col
next_col(diag) == Diagnostics(diag.line, diag.col + 1)

\* The position of a node that was built without one.
NoDiag == Diagnostics(0, 0)

\* expr.diag: the position the parser gave the node.
DiagOf(expr) == IF "d" \in DOMAIN expr THEN expr.d ELSE NoDiag

Returns(value, sc) ==
    [ok |-> TRUE, val |-> value, err |-> "", scopes |-> sc, diag |-> NoDiag]

\* An exception that carries no position: ZeroDivisionError, RuntimeError.
Raises(exception, sc) ==
    [ok |-> FALSE, val |-> None, err |-> exception, scopes |-> sc,
     diag |-> NoDiag]

\* TypeError(message, expr.diag) and VariableError(message, expr.diag).
RaisesAt(exception, expr, sc) ==
    [ok |-> FALSE, val |-> None, err |-> exception, scopes |-> sc,
     diag |-> DiagOf(expr)]

\* x op y of two floats, for the binary operators on numbers.  x / 0 is
\* Python's ZeroDivisionError.
Arith(t, x, y, sc) ==
    CASE t = "Mult" -> Returns(Float(x.p * y.p, x.q * y.q), sc)
      [] t = "Div" ->
            IF y.p = 0
            THEN Raises("ZeroDivisionError", sc)
            ELSE Returns(Float(x.p * y.q, x.q * y.p), sc)
      [] t = "Add" -> Returns(Float(x.p * y.q + y.p * x.q, x.q * y.q), sc)
      [] t = "Subtract" ->
            Returns(Float(x.p * y.q - y.p * x.q, x.q * y.q), sc)
      [] t = "LessThanExpr" -> Returns(PyBool(x.p * y.q < y.p * x.q), sc)
      [] t = "LessEqualExpr" -> Returns(PyBool(x.p * y.q <= y.p * x.q), sc)
      [] t = "GreaterThanExpr" -> Returns(PyBool(x.p * y.q > y.p * x.q), sc)
      [] t = "GreaterEqualExpr" -> Returns(PyBool(x.p * y.q >= y.p * x.q), sc)

NumericBinary ==
    {"Mult", "Div", "Add", "Subtract", "LessThanExpr", "LessEqualExpr",
     "GreaterThanExpr", "GreaterEqualExpr"}

\* An == and != that compare values of different types like any others.
CompareAnyTypes(expr, x, y, sc) ==
    Returns(PyBool((x = y) = (expr.t = "EqualEqualExpr")), sc)

\* x == y and x != y of two values: if type(x) is not type(y): raise
\* TypeError(..., expr.diag).
Compare(expr, x, y, sc) ==
    IF x.k # y.k
    THEN RaisesAt("TypeError", expr, sc)
    ELSE Returns(PyBool((x = y) = (expr.t = "EqualEqualExpr")), sc)

RECURSIVE evaluate_expression(_, _)
RECURSIVE _evaluate_number(_, _)
RECURSIVE _evaluate_bool(_, _)

_evaluate_number(expr, sc) ==
    LET x == evaluate_expression(expr, sc)
    IN  IF ~x.ok THEN x
        ELSE IF x.val.k # "float" THEN RaisesAt("TypeError", expr, x.scopes)
        ELSE x

_evaluate_bool(expr, sc) ==
    LET x == evaluate_expression(expr, sc)
    IN  IF ~x.ok THEN x
        ELSE IF x.val.k # "bool" THEN RaisesAt("TypeError", expr, x.scopes)
        ELSE x

\* An assignment that does not look its target up.
TargetNotLookedUp(expr, sc) == FALSE

\* case Assignment(target, expr): if target not in vars
TargetNotInVars(expr, sc) == ~Contains(sc, expr.n)

evaluate_expression(expr, sc) ==
    CASE expr.t = "Number" -> Returns(Float(expr.v, 1), sc)
      [] expr.t = "String" -> Returns(Str(expr.n), sc)
      [] expr.t = "TrueExpr" -> Returns(PyBool(TRUE), sc)
      [] expr.t = "FalseExpr" -> Returns(PyBool(FALSE), sc)
      [] expr.t = "Nil" -> Returns(None, sc)
      [] expr.t = "Variable" ->
            IF ~Contains(sc, expr.n)
            THEN RaisesAt("VariableError", expr, sc)
            ELSE Returns(_get_variable(sc, expr.n), sc)
      [] expr.t = "Grouping" -> evaluate_expression(expr.kids[1], sc)
      [] expr.t = "Negative" ->
            LET x == _evaluate_number(expr.kids[1], sc)
            IN  IF ~x.ok THEN x
                ELSE Returns(Float(-x.val.p, x.val.q), x.scopes)
      [] expr.t = "LogicalNot" ->
            LET x == _evaluate_bool(expr.kids[1], sc)
            IN  IF ~x.ok THEN x
                ELSE Returns(PyBool(x.val.p = 0), x.scopes)
      [] expr.t \in NumericBinary ->
            LET x == _evaluate_number(expr.kids[1], sc)
            IN  IF ~x.ok THEN x
                ELSE LET y == _evaluate_number(expr.kids[2], x.scopes)
                     IN  IF ~y.ok THEN y
                         ELSE Arith(expr.t, x.val, y.val, y.scopes)
      [] expr.t \in {"EqualEqualExpr", "NotEqualExpr"} ->
            LET x == evaluate_expression(expr.kids[1], sc)
            IN  IF ~x.ok THEN x
                ELSE LET y == evaluate_expression(expr.kids[2], x.scopes)
                     IN  IF ~y.ok THEN y
                         ELSE Compare(expr, x.val, y.val, y.scopes)
      [] expr.t = "Assignment" ->
            IF TargetNotInVars(expr, sc)
            THEN RaisesAt("VariableError", expr.kids[1], sc)
            ELSE LET x == evaluate_expression(expr.kids[1], sc)
                 IN  IF ~x.ok THEN x
                     ELSE LET after ==
                                  ScopedVars_setitem(x.scopes, expr.n, x.val)
                          IN  Returns(_get_variable(after, expr.n), after)
      [] OTHER -> Raises("RuntimeError", sc)

-----------------------------------------------------------------------------
(* Bounds and inputs of the Interpreter model. *)

\* Number of interpret() calls made on the one Interpreter instance.
MaxCalls == 2

\* Longest declaration list of a generated block.
MaxBlockLen == 2

Lits == {Number(1), Number(2), TrueExpr, Nil, String("s")}

Atoms == Lits \cup {Variable(n) : n \in Names}

\* The expressions of the generated programs: the atoms, every assignment
\* of an atom, chained and nested assignments, sums of mixed kinds, and at
\* least one expression of every class of the syntax tree.
Exprs ==
    Atoms
    \cup {Assignment(n, a) : n \in Names, a \in Atoms}
    \cup {Assignment("x", Assignment("y", a)) :
             a \in {Number(2), Variable("x"), TrueExpr}}
    \cup {Add(a, b) : a, b \in {Number(1), Variable("x")}}
    \cup {Add(Number(1), TrueExpr), Add(String("s"), String("s"))}
    \cup {Assignment("x", Add(Variable("x"), Number(1))),
          Assignment("x", Add(Number(1), Grouping(Assignment("y", Number(2))))),
          Add(Grouping(Assignment("x", Number(2))), Nil),
          Assignment("y", Add(Grouping(Assignment("x", Number(2))), Nil)),
          FalseExpr,
          EqualEqualExpr(Variable("x"), Number(1)),
          EqualEqualExpr(TrueExpr, Variable("x")),
          NotEqualExpr(Nil, TrueExpr),
          NotEqualExpr(Variable("x"), Variable("y")),
          LessThanExpr(Variable("x"), Number(2)),
          LessEqualExpr(Variable("x"), Number(2)),
          GreaterThanExpr(Variable("x"), Variable("y")),
          GreaterEqualExpr(Number(2), Variable("y")),
          Mult(Variable("x"), Number(2)),
          Subtract(Number(1), Variable("x")),
          Div(Number(1), Variable("x")),
          Div(Number(1), Subtract(Variable("x"), Variable("x"))),
          Negative(Variable("x")),
          Negative(String("s")),
          LogicalNot(TrueExpr),
          LogicalNot(Variable("y")),
          LogicalAnd(TrueExpr, FalseExpr),
          LogicalOr(FalseExpr, TrueExpr)}

\* Declarations without declarations inside.
LeafDecls ==
    {VarDeclNone(n) : n \in Names}
    \cup {VarDecl("x", e) : e \in Exprs}
    \cup {VarDecl("y", e) : e \in Atoms}
    \cup {PrintStmt(e) : e \in Exprs}
    \cup {ExprStmt(e) : e \in Exprs \ Atoms}

\* The declarations the generated blocks and sequences are made of: a
\* declaration that shadows, one that reads an outer name, a lookup, a
\* chained assignment to names held further out, and an expression that
\* assigns and then raises.
CoreDecls ==
    {VarDecl("x", Number(2)),
     VarDecl("y", Variable("x")),
     PrintStmt(Variable("x")),
     ExprStmt(Assignment("x", Assignment("y", Number(1)))),
     ExprStmt(Add(Grouping(Assignment("x", Number(1))), Nil))}

SeqsUpTo(S, n) == UNION {[1..k -> S] : k \in 0..n}

Blocks == {BlockStmt(ds) : ds \in SeqsUpTo(CoreDecls, MaxBlockLen)}

InnerDecls == {VarDecl("x", Number(2)), PrintStmt(Variable("y"))}

InnerBlocks == {BlockStmt(ds) : ds \in SeqsUpTo(InnerDecls, MaxBlockLen)}

OuterDecls ==
    {VarDecl("y", Number(1)),
     PrintStmt(Variable("x")),
     ExprStmt(Assignment("x", Number(1)))}

NestedBlocks ==
    {BlockStmt(<<d, b>>) : d \in OuterDecls, b \in InnerBlocks}
    \cup {BlockStmt(<<b, d>>) : d \in OuterDecls, b \in InnerBlocks}
    \cup {BlockStmt(<<BlockStmt(<<b>>)>>) : b \in InnerBlocks}

Conditions ==
    {TrueExpr, FalseExpr, Nil, Number(1), Variable("x"),
     Assignment("x", Number(2)),
     LogicalAnd(TrueExpr, Grouping(LogicalOr(FalseExpr, TrueExpr)))}

Branches ==
    {PrintStmt(Number(1)),
     BlockStmt(<<VarDecl("x", Number(2)), PrintStmt(Variable("y"))>>)}

IfStmts ==
    {IfStmt(c, s) : c \in Conditions, s \in Branches}
    \cup {IfElseStmt(c, s, PrintStmt(Number(2))) :
             c \in Conditions, s \in Branches}
    \cup {IfElseStmt(FalseExpr, PrintStmt(Number(1)),
                     IfElseStmt(c, PrintStmt(Number(2)),
                                PrintStmt(Variable("x")))) :
             c \in Conditions}

WhileStmts ==
    {WhileStmt(c, s) : c \in {TrueExpr, FalseExpr, Variable("x")},
                       s \in Branches}

\* test_block_scoping, with the values of the spec's example:
\* var x = 1; { var x = 2; print(x); } print(x);
BlockScopingProgram ==
    <<VarDecl("x", Number(1)),
      BlockStmt(<<VarDecl("x", Number(2)), PrintStmt(Variable("x"))>>),
      PrintStmt(Variable("x"))>>

\* test_nested_blocks
NestedBlocksProgram ==
    <<VarDecl("x", Number(1)),
      BlockStmt(<<PrintStmt(Variable("x")),
                  VarDecl("x", Number(2)),
                  BlockStmt(<<PrintStmt(Variable("x")),
                              VarDecl("x", Add(Variable("x"), Number(1))),
                              PrintStmt(Variable("x"))>>),
                  PrintStmt(Variable("x"))>>)>>

\* test_while_loop: var a = 1; while (a <= 3) { print(a); a = a + 1; }
WhileLoopProgram ==
    <<VarDecl("x", Number(1)),
      WhileStmt(LessEqualExpr(Variable("x"), Number(3)),
                BlockStmt(<<PrintStmt(Variable("x")),
                            ExprStmt(Assignment("x",
                                Add(Variable("x"), Number(1))))>>))>>

\* test_nested_assignment_simple: var x; var y; x = y = 2;
NestedAssignmentProgram ==
    <<VarDeclNone("x"), VarDeclNone("y"),
      ExprStmt(Assignment("x", Assignment("y", Number(2))))>>

\* An error two blocks deep, after the blocks have bound names.
DeepErrorProgram ==
    <<VarDecl("x", Number(1)),
      BlockStmt(<<VarDecl("y", Number(2)),
                  BlockStmt(<<VarDecl("x", Number(2)),
                              ExprStmt(Assignment("y", Variable("x"))),
                              PrintStmt(Add(Variable("x"), TrueExpr))>>),
                  PrintStmt(Variable("y"))>>),
      PrintStmt(Variable("x"))>>

\* What parse_program can return: Program(decls).
Programs ==
    {<<d>> : d \in LeafDecls \cup Blocks \cup NestedBlocks
                   \cup IfStmts \cup WhileStmts}
    \cup {<<d1, d2>> : d1, d2 \in CoreDecls}
    \cup {<<>>, BlockScopingProgram, NestedBlocksProgram, WhileLoopProgram,
          NestedAssignmentProgram, DeepErrorProgram}

-----------------------------------------------------------------------------
(* The Interpreter (interpreter.py).  interpret() parses its source and     *)
(* executes the declarations in order; a frame of ctrl is one activation of *)
(* a loop over declarations: the program's, a block's (block = TRUE, its    *)
(* finally clause pending), or the one statement of an if branch.           *)

Frame(decls, block) == [decls |-> decls, block |-> block]

Top == ctrl[Len(ctrl)]

\* The declaration to execute next.
Cur == Head(Top.decls)

\* The innermost loop moves to its next declaration.
Advance(c) == [c EXCEPT ![Len(c)].decls = Tail(@)]

\* _interpret_declaration / _interpret_statement is about to match a
\* declaration of class t.
At(t) ==
    /\ status = "running"
    /\ ctrl # <<>>
    /\ Top.decls # <<>>
    /\ Cur.t = t

\* value is not None and value is not False
IsTruthy(value) == value.k # "None" /\ ~(value.k = "bool" /\ value.p = 0)

\* Interpreter.__init__
Interpreter_init ==
    /\ scopes = <<EmptyScope>>
    /\ ctrl = <<>>
    /\ status = "idle"
    /\ error = ""
    /\ output = <<>>
    /\ prog = <<>>
    /\ calls = 0
    /\ scopes0 = <<EmptyScope>>

\* An interpret() that starts from a fresh global scope.
interpretFresh(p) ==
    /\ status = "idle"
    /\ calls < MaxCalls
    /\ calls' = calls + 1
    /\ prog' = p
    /\ scopes0' = scopes
    /\ scopes' = <<EmptyScope>>
    /\ output' = <<>>
    /\ error' = ""
    /\ ctrl' = <<Frame(p, FALSE)>>
    /\ status' = "running"
    /\ UNCHANGED <<bufVars, frontVars>>

\* Interpreter.interpret, when parse_program returns Program(p): the loop
\* over p.decls begins.
interpret(p) ==
    /\ status = "idle"
    /\ calls < MaxCalls
    /\ calls' = calls + 1
    /\ prog' = p
    /\ scopes0' = scopes
    /\ output' = <<>>
    /\ error' = ""
    /\ ctrl' = <<Frame(p, FALSE)>>
    /\ status' = "running"
    /\ UNCHANGED <<scopes, bufVars, frontVars>>

\* Interpreter.interpret, when the token generator or parse_program raises:
\* no declaration is executed.
interpret_rejects(e) ==
    /\ status = "idle"
    /\ calls < MaxCalls
    /\ calls' = calls + 1
    /\ prog' = <<>>
    /\ scopes0' = scopes
    /\ output' = <<>>
    /\ error' = e
    /\ ctrl' = <<>>
    /\ status' = "raised"
    /\ UNCHANGED <<scopes, bufVars, frontVars>>

\* The caller after a call (main.py, scan_input): what the call returned or
\* raised has been reported, and the loop is back at its prompt with the
\* same Interpreter instance.  scan_input has no except clause for the
\* RuntimeError of an expression no case matches: that one ends the loop.
prompt ==
    /\ status \in {"returned", "raised"}
    /\ error # "RuntimeError"
    /\ status' = "idle"
    /\ prog' = <<>>
    /\ output' = <<>>
    /\ error' = ""
    /\ scopes0' = scopes
    /\ UNCHANGED <<scopes, ctrl, calls, bufVars, frontVars>>

\* _interpret_declaration, case VarDecl(name, None) and VarDecl(name, value)
interpret_VarDecl ==
    /\ At("VarDecl")
    /\ LET r == IF Cur.kids = <<>>
                THEN Returns(None, scopes)
                ELSE evaluate_expression(Cur.kids[1], scopes)
       IN  IF r.ok
           THEN /\ scopes' = _declare_variable(r.scopes, Cur.n, r.val)
                /\ ctrl' = Advance(ctrl)
                /\ UNCHANGED <<status, error>>
           ELSE /\ scopes' = r.scopes
                /\ status' = "raising"
                /\ error' = r.err
                /\ UNCHANGED ctrl
    /\ UNCHANGED <<output, prog, calls, scopes0, bufVars, frontVars>>

\* _interpret_statement, case PrintStmt(expr)
interpret_PrintStmt ==
    /\ At("PrintStmt")
    /\ LET r == evaluate_expression(Cur.kids[1], scopes)
       IN  /\ scopes' = r.scopes
           /\ IF r.ok
              THEN /\ output' = Append(output, r.val)
                   /\ ctrl' = Advance(ctrl)
                   /\ UNCHANGED <<status, error>>
              ELSE /\ status' = "raising"
                   /\ error' = r.err
                   /\ UNCHANGED <<ctrl, output>>
    /\ UNCHANGED <<prog, calls, scopes0, bufVars, frontVars>>

\* _interpret_statement, case ExprStmt(expr)
interpret_ExprStmt ==
    /\ At("ExprStmt")
    /\ LET r == evaluate_expression(Cur.kids[1], scopes)
       IN  /\ scopes' = r.scopes
           /\ IF r.ok
              THEN /\ ctrl' = Advance(ctrl)
                   /\ UNCHANGED <<status, error>>
              ELSE /\ status' = "raising"
                   /\ error' = r.err
                   /\ UNCHANGED ctrl
    /\ UNCHANGED <<output, prog, calls, scopes0, bufVars, frontVars>>

\* _interpret_statement, case BlockStmt(declarations): self._push_scope()
\* and the loop over the block's declarations begins.
interpret_BlockStmt ==
    /\ At("BlockStmt")
    /\ scopes' = _push_scope(scopes)
    /\ ctrl' = Append(Advance(ctrl), Frame(Cur.kids, TRUE))
    /\ UNCHANGED <<status, error, output, prog, calls, scopes0, bufVars, frontVars>>

\* The end of a block's loop: finally: self._pop_scope()
BlockStmt_finally ==
    /\ status = "running"
    /\ ctrl # <<>>
    /\ Top.decls = <<>>
    /\ Top.block
    /\ scopes' = _pop_scope(scopes)
    /\ ctrl' = SubSeq(ctrl, 1, Len(ctrl) - 1)
    /\ UNCHANGED <<status, error, output, prog, calls, scopes0, bufVars, frontVars>>

\* _interpret_statement, case IfStmt(condition, then_branch, else_branch)
interpret_IfStmt ==
    /\ At("IfStmt")
    /\ LET r == evaluate_expression(Cur.kids[1], scopes)
       IN  /\ scopes' = r.scopes
           /\ IF ~r.ok
              THEN /\ status' = "raising"
                   /\ error' = r.err
                   /\ UNCHANGED ctrl
              ELSE /\ UNCHANGED <<status, error>>
                   /\ ctrl' =
                        IF IsTruthy(r.val)
                        THEN Append(Advance(ctrl), Frame(<<Cur.kids[2]>>, FALSE))
                        ELSE IF Len(Cur.kids) = 3
                        THEN Append(Advance(ctrl), Frame(<<Cur.kids[3]>>, FALSE))
                        ELSE Advance(ctrl)
    /\ UNCHANGED <<output, prog, calls, scopes0, bufVars, frontVars>>

\* _interpret_statement on a statement no case matches (a WhileStmt): the
\* match statement falls through and the call returns.
interpret_no_case ==
    /\ status = "running"
    /\ ctrl # <<>>
    /\ Top.decls # <<>>
    /\ Cur.t \notin {"VarDecl", "PrintStmt", "ExprStmt", "BlockStmt", "IfStmt"}
    /\ ctrl' = Advance(ctrl)
    /\ UNCHANGED <<scopes, status, error, output, prog, calls, scopes0, bufVars, frontVars>>

\* The end of a loop that is not a block's: the branch of an if has been
\* executed, or interpret() has executed its last declaration and returns.
return ==
    /\ status = "running"
    /\ ctrl # <<>>
    /\ Top.decls = <<>>
    /\ ~Top.block
    /\ ctrl' = SubSeq(ctrl, 1, Len(ctrl) - 1)
    /\ status' = IF Len(ctrl) = 1 THEN "returned" ELSE "running"
    /\ UNCHANGED <<scopes, error, output, prog, calls, scopes0, bufVars, frontVars>>

\* An exception that leaves a block without running a finally clause.
propagateNoFinally ==
    /\ status = "raising"
    /\ ctrl # <<>>
    /\ ctrl' = SubSeq(ctrl, 1, Len(ctrl) - 1)
    /\ status' = IF Len(ctrl) = 1 THEN "raised" ELSE "raising"
    /\ UNCHANGED <<scopes, error, output, prog, calls, scopes0, bufVars, frontVars>>

\* An exception that is caught where it was raised: the loop goes on with
\* the next declaration.
propagateAndResume ==
    /\ status = "raising"
    /\ ctrl # <<>>
    /\ ctrl' = Advance(ctrl)
    /\ status' = "running"
    /\ UNCHANGED <<scopes, error, output, prog, calls, scopes0, bufVars, frontVars>>

\* An exception propagates out of the innermost activation: out of a block
\* through its finally clause (self._pop_scope()), and out of interpret()
\* to the caller.
propagate ==
    /\ status = "raising"
    /\ ctrl # <<>>
    /\ scopes' = IF Top.block THEN _pop_scope(scopes) ELSE scopes
    /\ ctrl' = SubSeq(ctrl, 1, Len(ctrl) - 1)
    /\ status' = IF Len(ctrl) = 1 THEN "raised" ELSE "raising"
    /\ UNCHANGED <<error, output, prog, calls, scopes0, bufVars, frontVars>>

-----------------------------------------------------------------------------
(* The tokens (tokens.py, token_with_context.py).  A token is its class c, *)
(* the name of an IDENT or the text of a STRING n, and the value of a       *)
(* NUMBER v.  The token generator builds names and texts as sequences of    *)
(* characters and values as floats; the parser only passes them on.         *)

Token(c, n, v) == [c |-> c, n |-> n, v |-> v]

\* A token of a class without fields: LPAREN(), VAR(), ...
Plain(c) == Token(c, "", 0)

IDENT(name) == Token("IDENT", name, 0)

STRING_(value) == Token("STRING", value, 0)

NUMBER(value) == Token("NUMBER", "", value)

\* TokenWithContext(t, d)
TokenWithContext(tok, diag) == [t |-> tok, d |-> diag]

-----------------------------------------------------------------------------
(* The character stream the token generator reads.  token_generator.py     *)
(* calls has_next, can_peek, peek, next, eat and diagnostic_string on it;  *)
(* it is a BufferedIterator over char_generator (char_generator.py) with   *)
(* the two characters of lookahead that _skip_comments and _scan_number    *)
(* need.  A stream c is the record of the BufferedIterator's buffer and    *)
(* producer.                                                               *)

\* Lookahead of the character stream.
CharReaderBufsize == 2

RECURSIVE char_generator_line(_, _, _)
\* The characters of one line from column j on: for j, char in enumerate(line)
char_generator_line(line, i, j) ==
    IF j > Len(line) THEN <<>>
    ELSE <<Val([char |-> line[j], line |-> i, col |-> j])>>
         \o char_generator_line(line, i, j + 1)

RECURSIVE char_generator_from(_, _)
char_generator_from(ls, i) ==
    IF i > Len(ls) THEN <<>>
    ELSE char_generator_line(ls[i], i, 1) \o char_generator_from(ls, i + 1)

\* char_generator(line_iter): every character of every line, in order, with
\* its 1-based line and column.
char_generator(ls) == char_generator_from(ls, 1)

Stream(buf, it) == [buffer |-> buf, iter |-> it]

c_has_next(c) == c.buffer # <<>>

c_can_peek(c, k) == CanPeekResult(c.buffer, CharReaderBufsize, k) = Bool(TRUE)

\* The character peek(k) returns, for a k that can be peeked.
c_peek(c, k) == PeekResult(c.buffer, CharReaderBufsize, k).v.char

c_next(c) ==
    LET r == NextResult(c.buffer, c.iter, CharReaderBufsize)
    IN  Stream(r.buffer, r.iter)

\* eat(ch): whether the head character is ch, and the stream afterwards.
c_eat(c, ch) ==
    IF c_has_next(c) /\ c_peek(c, 0) = ch
    THEN [ok |-> TRUE, c |-> c_next(c)]
    ELSE [ok |-> FALSE, c |-> c]

\* The position diagnostic_string() renders: that of the next character,
\* and at the end of the input one column past the last character read.
c_diagnostics(c, taken) ==
    IF c.buffer # <<>>
    THEN Diagnostics(Head(c.buffer).v.line, Head(c.buffer).v.col)
    ELSE IF taken # <<>>
    THEN next_col(Diagnostics(taken[Len(taken)].v.line,
                              taken[Len(taken)].v.col))
    ELSE Diagnostics(0, 0)

-----------------------------------------------------------------------------
(* token_generator (token_generator.py). *)

\* str.isspace
Whitespace == {" ", "\n", "\t", "\r"}

\* str.isdigit
DigitChars == <<"0", "1", "2", "3", "4", "5", "6", "7", "8", "9">>

Digits == {DigitChars[i] : i \in 1..10}

\* str.isalpha
Letters ==
    {"a", "b", "c", "d", "e", "f", "g", "h", "i", "j", "k", "l", "m", "n",
     "o", "p", "q", "r", "s", "t", "u", "v", "w", "x", "y", "z",
     "A", "B", "C", "D", "E", "F", "G", "H", "I", "J", "K", "L", "M", "N",
     "O", "P", "Q", "R", "S", "T", "U", "V", "W", "X", "Y", "Z"}

_is_ident_start_char(ch) == ch \in Letters \/ ch = "_"

_is_ident_cont_char(ch) == ch \in Letters \/ ch \in Digits \/ ch = "_"

RECURSIVE _skip_whitespace(_)
_skip_whitespace(c) ==
    IF c_has_next(c) /\ c_peek(c, 0) \in Whitespace
    THEN _skip_whitespace(c_next(c))
    ELSE c

RECURSIVE EatComment(_)
\* while c.has_next() and not c.eat("\n"): c.next()
EatComment(c) ==
    IF ~c_has_next(c) THEN c
    ELSE LET e == c_eat(c, "\n")
         IN  IF e.ok THEN e.c ELSE EatComment(c_next(c))

RECURSIVE _skip_comments(_)
_skip_comments(c) ==
    IF ~c_can_peek(c, 1) \/ ~(c_peek(c, 0) = "/" /\ c_peek(c, 1) = "/")
    THEN c
    ELSE _skip_comments(EatComment(c))

\* What a scan function does: it returns a token or raises a ScannerError,
\* and leaves the stream at c.
Scanned(tok, c) == [ok |-> TRUE, tok |-> tok, err |-> "", c |-> c]

ScannerError(message, c) ==
    [ok |-> FALSE, tok |-> Plain("none"), err |-> message, c |-> c]

RECURSIVE ScanStringLoop(_, _)
ScanStringLoop(c, chars) ==
    IF ~c_has_next(c)
    THEN ScannerError("Unexpected end of string:", c)
    ELSE IF c_peek(c, 0) = "\""
    THEN Scanned(STRING_(chars), c_next(c))
    ELSE ScanStringLoop(c_next(c), Append(chars, c_peek(c, 0)))

_scan_string(c) == ScanStringLoop(c_next(c), <<>>)

RECURSIVE ScanDigits(_, _)
\* while c.has_next() and c.peek().isdigit(): digits.append(c.next())
ScanDigits(c, digits) ==
    IF c_has_next(c) /\ c_peek(c, 0) \in Digits
    THEN ScanDigits(c_next(c), Append(digits, c_peek(c, 0)))
    ELSE [c |-> c, digits |-> digits]

RECURSIVE IntOf(_)
\* The number a sequence of digits denotes.
IntOf(ds) ==
    IF ds = <<>> THEN 0
    ELSE 10 * IntOf(SubSeq(ds, 1, Len(ds) - 1))
         + (CHOOSE i \in 0..9 : DigitChars[i + 1] = ds[Len(ds)])

RECURSIVE Pow10(_)
Pow10(n) == IF n = 0 THEN 1 ELSE 10 * Pow10(n - 1)

\* float("".join(digits)), for digits with at most one "."
PyFloat(digits) ==
    LET dots == {i \in 1..Len(digits) : digits[i] = "."}
    IN  IF dots = {}
        THEN Float(IntOf(digits), 1)
        ELSE LET i == CHOOSE j \in dots : TRUE
                 whole == SubSeq(digits, 1, i - 1)
                 frac == SubSeq(digits, i + 1, Len(digits))
             IN  Float(IntOf(whole \o frac), Pow10(Len(frac)))

\* A _scan_number that takes a "." after the digits for the decimal point
\* whatever follows it.
ScanNumberEatsDot(c) ==
    LET a == ScanDigits(c, <<>>)
    IN  IF ~c_has_next(a.c) \/ c_peek(a.c, 0) # "."
        THEN Scanned(NUMBER(PyFloat(a.digits)), a.c)
        ELSE LET b == ScanDigits(c_next(a.c), Append(a.digits, "."))
             IN  Scanned(NUMBER(PyFloat(b.digits)), b.c)

_scan_number(c) ==
    LET a == ScanDigits(c, <<>>)
    IN  IF \/ ~c_has_next(a.c)
           \/ ~c_can_peek(a.c, 1)
           \/ c_peek(a.c, 0) # "."
           \/ c_peek(a.c, 1) \notin Digits
        THEN Scanned(NUMBER(PyFloat(a.digits)), a.c)
        ELSE LET b == ScanDigits(c_next(a.c), Append(a.digits, "."))
             IN  Scanned(NUMBER(PyFloat(b.digits)), b.c)

\* The reserved words and the classes of their tokens.
Keywords ==
    {<<<<"a", "n", "d">>, "AND">>,
     <<<<"c", "l", "a", "s", "s">>, "CLASS">>,
     <<<<"e", "l", "s", "e">>, "ELSE">>,
     <<<<"f", "a", "l", "s", "e">>, "FALSE">>,
     <<<<"f", "u", "n">>, "FUN">>,
     <<<<"f", "o", "r">>, "FOR">>,
     <<<<"i", "f">>, "IF">>,
     <<<<"n", "i", "l">>, "NIL">>,
     <<<<"o", "r">>, "OR">>,
     <<<<"p", "r", "i", "n", "t">>, "PRINT">>,
     <<<<"r", "e", "t", "u", "r", "n">>, "RETURN">>,
     <<<<"s", "u", "p", "e", "r">>, "SUPER">>,
     <<<<"t", "h", "i", "s">>, "THIS">>,
     <<<<"t", "r", "u", "e">>, "TRUE">>,
     <<<<"v", "a", "r">>, "VAR">>,
     <<<<"w", "h", "i", "l", "e">>, "WHILE">>}

RECURSIVE ScanIdentLoop(_, _)
ScanIdentLoop(c, chars) ==
    IF ~c_has_next(c) THEN [c |-> c, chars |-> chars]
    ELSE IF ~_is_ident_cont_char(c_peek(c, 0)) THEN [c |-> c, chars |-> chars]
    ELSE ScanIdentLoop(c_next(c), Append(chars, c_peek(c, 0)))

_scan_ident_or_keyword(c) ==
    LET a == ScanIdentLoop(c_next(c), <<c_peek(c, 0)>>)
    IN  IF \E k \in Keywords : k[1] = a.chars
        THEN Scanned(Plain((CHOOSE k \in Keywords : k[1] = a.chars)[2]), a.c)
        ELSE Scanned(IDENT(a.chars), a.c)

\* The tokens of one character: elif c.eat("("): return LPAREN() ...
SingleCharTokens ==
    {<<"(", "LPAREN">>, <<")", "RPAREN">>, <<"{", "LBRACE">>,
     <<"}", "RBRACE">>, <<",", "COMMA">>, <<".", "DOT">>, <<"-", "MINUS">>,
     <<"+", "PLUS">>, <<";", "SEMICOLON">>, <<"/", "SLASH">>,
     <<"*", "STAR">>}

\* The tokens of one or two characters: X_EQUAL() if c.eat("=") else X()
OneOrTwoCharTokens ==
    {<<"=", "EQUAL", "EQUAL_EQUAL">>, <<"!", "BANG", "BANG_EQUAL">>,
     <<"<", "LESS", "LESS_EQUAL">>, <<">", "GREATER", "GREATER_EQUAL">>}

\* _scan_token, on a stream that has a next character.
_scan_token(c) ==
    LET ch == c_peek(c, 0)
    IN  IF \E s \in SingleCharTokens : c_eat(c, s[1]).ok
        THEN LET s == CHOOSE s \in SingleCharTokens : c_eat(c, s[1]).ok
             IN  Scanned(Plain(s[2]), c_eat(c, s[1]).c)
        ELSE IF \E s \in OneOrTwoCharTokens : c_eat(c, s[1]).ok
        THEN LET s == CHOOSE s \in OneOrTwoCharTokens : c_eat(c, s[1]).ok
                 second == c_eat(c_eat(c, s[1]).c, "=")
             IN  IF second.ok
                 THEN Scanned(Plain(s[3]), second.c)
                 ELSE Scanned(Plain(s[2]), second.c)
        ELSE IF ch = "\"" THEN _scan_string(c)
        ELSE IF ch \in Digits THEN _scan_number(c)
        ELSE IF _is_ident_start_char(ch) THEN _scan_ident_or_keyword(c)
        ELSE ScannerError("Invalid token character:", c)

\* Longest source text of the generated inputs, in characters.
MaxSrcLen == 4

\* The characters of the generated inputs.
SrcChars == {" ", "\n", "/", "1", ".", "a"}

\* "//\n a": a comment line followed by an indented token.
CommentThenIndent == <<<<"/", "/", "\n">>, <<" ", "a">>>>

\* test_numbers
Src_12_34 == <<<<"1", "2", ".", "3", "4">>>>

Src_1234_abc == <<<<"1", "2", "3", "4", ".", "a", "b", "c">>>>

Src_dot_1234 == <<<<".", "1", "2", "3", "4">>>>

\* test_comments: "asd // H\n// g *\nvar a = 3;//T"
Src_comments ==
    <<<<"a", "s", "d", " ", "/", "/", " ", "H", "\n", "/", "/", " ", "g",
        " ", "*", "\n", "v", "a", "r", " ", "a", " ", "=", " ", "3", ";",
        "/", "/", "T">>>>

\* test_unterminated_string, shortened: (var ("h))
Src_unterminated == <<<<"(", "v", "a", "r", " ", "(", "\"", "h", ")", ")">>>>

\* "a<=1!=\"s\"": operators of two characters and a string
Src_operators ==
    <<<<"a", "<", "=", "1", "!", "=", "\"", "s", "\"", ">", "!", "=", "=">>>>

\* The inputs of the token generator: every text of at most MaxSrcLen
\* characters as one line, and the texts above.
LexInputs ==
    {<<l>> : l \in UNION {[1..n -> SrcChars] : n \in 0..MaxSrcLen}}
    \cup {<<>>, CommentThenIndent, Src_12_34, Src_1234_abc, Src_dot_1234,
          Src_comments, Src_unterminated, Src_operators}

\* No token generator is in use.
token_generator_unused ==
    /\ lexpc = "off"
    /\ tokens = <<>>
    /\ lexerr = ""

\* token_generator(CharReader(lines)): the stream is constructed and the
\* generator is at the head of its loop.
token_generator_init ==
    /\ lines \in LexInputs
    /\ source = char_generator(lines)
    /\ bufsize = CharReaderBufsize
    /\ LET r == _refill_buffer(<<>>, source, bufsize)
       IN  /\ buffer = r.buffer
           /\ iter = r.iter
    /\ consumed = <<>>
    /\ last = NoCall
    /\ lexpc = "loop"
    /\ tokens = <<>>
    /\ lexerr = ""

\* What the stream has given out when its buffer and producer are c.
Taken(c) == SubSeq(source, 1, Len(source) - Len(c.buffer) - Len(c.iter))

\* token_generator, from the head of its loop to the scan of a token:
\* whitespace and comments are skipped, and the generator returns when the
\* input has ended.
token_generator_skip ==
    /\ lexpc = "loop"
    /\ LET c0 == Stream(buffer, iter)
           c == IF c_has_next(c0)
                THEN _skip_comments(_skip_whitespace(c0))
                ELSE c0
       IN  /\ buffer' = c.buffer
           /\ iter' = c.iter
           /\ consumed' = Taken(c)
           /\ lexpc' = IF c_has_next(c) THEN "scan" ELSE "done"
    /\ UNCHANGED <<bufsize, source, last, tokens, lexerr, lines, reader,
                   rout, interpVars, parseVars>>

\* token_generator, the scan of a token: it is yielded with the position
\* at which its scan began, or _scan_token raises.
token_generator_scan ==
    /\ lexpc = "scan"
    /\ LET c0 == Stream(buffer, iter)
           diag == c_diagnostics(c0, consumed)
           r == _scan_token(c0)
       IN  /\ buffer' = r.c.buffer
           /\ iter' = r.c.iter
           /\ consumed' = Taken(r.c)
           /\ IF r.ok
              THEN /\ tokens' = Append(tokens, TokenWithContext(r.tok, diag))
                   /\ lexpc' = "loop"
                   /\ UNCHANGED lexerr
              ELSE /\ lexpc' = "raised"
                   /\ lexerr' = r.err
                   /\ UNCHANGED tokens
    /\ UNCHANGED <<bufsize, source, last, lines, reader, rout, interpVars,
                   parseVars>>

-----------------------------------------------------------------------------
(* The parser (parser.py). *)

(* The token stream ts is the sequence of TokenWithContext the parser is   *)
(* given, and i the index of the next token.  The parser calls has_next,   *)
(* peek, next, eat and diagnostics on it; they are a BufferedIterator's    *)
(* over the tokens, and diagnostics() is the position of the next token.   *)

s_has_next(ts, i) == i <= Len(ts)

\* The token peek() returns, on a stream that has a next token.
s_peek(ts, i) == ts[i].t

\* Whether eat(token) consumes the next token.
s_eat(ts, i, tok) == s_has_next(ts, i) /\ s_peek(ts, i) = tok

\* diagnostics(): the position of the next token, and at the end of the
\* stream one column past the last token's.
s_diagnostics(ts, i) ==
    IF s_has_next(ts, i) THEN ts[i].d
    ELSE IF ts # <<>> THEN next_col(ts[Len(ts)].d)
    ELSE NoDiag

\* A node of the syntax tree with its diag field.
WithDiag(node, diag) ==
    [t |-> node.t, n |-> node.n, v |-> node.v, kids |-> node.kids,
     d |-> diag]

\* What a parse function does: it returns a node and leaves the stream at
\* i, or raises.
Parsed(node, i) ==
    [ok |-> TRUE, node |-> node, i |-> i, exc |-> "", message |-> "",
     d |-> NoDiag]

ParserError(message, diag) ==
    [ok |-> FALSE, node |-> WithDiag(Nil, NoDiag), i |-> 0, exc |-> "ParserError",
     message |-> message, d |-> diag]

\* peek() on a stream without a next token.
PeekStops ==
    [ok |-> FALSE, node |-> WithDiag(Nil, NoDiag), i |-> 0,
     exc |-> "StopIteration", message |-> "", d |-> NoDiag]

\* The binary layers, from the loosest to the tightest.
LogicalOrLayer == 1

LogicalAndLayer == 2

EqualityLayer == 3

ComparisonLayer == 4

TermLayer == 5

FactorLayer == 6

\* The operator tokens each layer consumes and the nodes it builds.
LayerOperators(layer) ==
    CASE layer = LogicalOrLayer -> {<<"OR", "LogicalOr">>}
      [] layer = LogicalAndLayer -> {<<"AND", "LogicalAnd">>}
      [] layer = EqualityLayer ->
            {<<"EQUAL_EQUAL", "EqualEqualExpr">>,
             <<"BANG_EQUAL", "NotEqualExpr">>}
      [] layer = ComparisonLayer ->
            {<<"LESS", "LessThanExpr">>, <<"LESS_EQUAL", "LessEqualExpr">>,
             <<"GREATER", "GreaterThanExpr">>,
             <<"GREATER_EQUAL", "GreaterEqualExpr">>}
      [] layer = TermLayer -> {<<"PLUS", "Add">>, <<"MINUS", "Subtract">>}
      [] layer = FactorLayer -> {<<"STAR", "Mult">>, <<"SLASH", "Div">>}

RECURSIVE _parse_primary(_, _)
RECURSIVE _parse_unary(_, _)
RECURSIVE ParseOperand(_, _, _)
RECURSIVE ParseOperators(_, _, _, _)
RECURSIVE ParseLayer(_, _, _)
RECURSIVE _parse_assign_or_equality(_, _)
RECURSIVE parse_expression(_, _)
RECURSIVE _parse_if_statement(_, _)
RECURSIVE _parse_while_statement(_, _)
RECURSIVE _parse_for_statement(_, _)
RECURSIVE parse_statement(_, _)
RECURSIVE _parse_declaration(_, _)
RECURSIVE ParseDeclarations(_, _, _, _)
RECURSIVE _parse_block_stmt(_, _)

\* What a parse function does with the value r a call returned: r is
\* computed once and handed to the rest of the function.
AndThen(r, Rest(_)) == Rest(r)

_parse_primary(ts, i) ==
    LET diag == s_diagnostics(ts, i)
    IN  IF ~s_has_next(ts, i)
        THEN ParserError("Unexpected end of expression", diag)
        ELSE LET t == s_peek(ts, i)
             IN  CASE t.c = "NUMBER" -> Parsed(WithDiag(Number(t.v), diag), i + 1)
                   [] t.c = "STRING" -> Parsed(WithDiag(String(t.n), diag), i + 1)
                   [] t.c = "TRUE" -> Parsed(WithDiag(TrueExpr, diag), i + 1)
                   [] t.c = "FALSE" -> Parsed(WithDiag(FalseExpr, diag), i + 1)
                   [] t.c = "NIL" -> Parsed(WithDiag(Nil, diag), i + 1)
                   [] t.c = "IDENT" -> Parsed(WithDiag(Variable(t.n), diag), i + 1)
                   [] t.c = "LPAREN" ->
                        AndThen(parse_expression(ts, i + 1), LAMBDA e :
                            IF ~e.ok THEN e
                            ELSE IF ~s_eat(ts, e.i, Plain("RPAREN"))
                            THEN ParserError("Missing closing parenthesis",
                                             s_diagnostics(ts, e.i))
                            ELSE Parsed(WithDiag(Grouping(e.node), diag), e.i + 1))
                   [] t.c \in {"PLUS", "SLASH", "STAR"} ->
                        ParserError("Illegal start of expression", diag)
                   [] OTHER ->
                        ParserError("Unexpected token while parsing primary",
                                    diag)

_parse_unary(ts, i) ==
    LET diag == s_diagnostics(ts, i)
    IN  IF s_eat(ts, i, Plain("BANG"))
        THEN AndThen(_parse_unary(ts, i + 1), LAMBDA e :
                 IF e.ok THEN Parsed(WithDiag(LogicalNot(e.node), diag), e.i)
                 ELSE e)
        ELSE IF s_eat(ts, i, Plain("MINUS"))
        THEN AndThen(_parse_unary(ts, i + 1), LAMBDA e :
                 IF e.ok THEN Parsed(WithDiag(Negative(e.node), diag), e.i)
                 ELSE e)
        ELSE _parse_primary(ts, i)

\* The operand of a layer: an expression of the next tighter layer.
ParseOperand(ts, i, layer) ==
    IF layer = FactorLayer
    THEN _parse_unary(ts, i)
    ELSE ParseLayer(ts, i, layer + 1)

\* A layer that takes an operator after its first operand and then parses
\* the rest of the layer as the right operand.
ParseOperatorsRight(ts, expr, i, layer) ==
    IF ~s_has_next(ts, i) THEN Parsed(expr, i)
    ELSE LET diag == s_diagnostics(ts, i)
             ops == {op \in LayerOperators(layer) :
                        s_eat(ts, i, Plain(op[1]))}
         IN  IF ops = {} THEN Parsed(expr, i)
             ELSE LET op == CHOOSE o \in ops : TRUE
                  IN  AndThen(ParseLayer(ts, i + 1, layer), LAMBDA r :
                          IF ~r.ok THEN r
                          ELSE Parsed(
                                   WithDiag(Node(op[2], "", 0, <<expr, r.node>>),
                                            diag), r.i))

\* The loop of a layer: while tokens.has_next(), an operator of the layer
\* is eaten and folded with the next operand into expr.
ParseOperators(ts, expr, i, layer) ==
    IF ~s_has_next(ts, i) THEN Parsed(expr, i)
    ELSE LET diag == s_diagnostics(ts, i)
             ops == {op \in LayerOperators(layer) :
                        s_eat(ts, i, Plain(op[1]))}
         IN  IF ops = {} THEN Parsed(expr, i)
             ELSE LET op == CHOOSE o \in ops : TRUE
                  IN  AndThen(ParseOperand(ts, i + 1, layer), LAMBDA r :
                          IF ~r.ok THEN r
                          ELSE ParseOperators(
                                   ts,
                                   WithDiag(Node(op[2], "", 0, <<expr, r.node>>),
                                            diag),
                                   r.i, layer))

\* _parse_factor, _parse_term, _parse_comparison, _parse_equality,
\* _parse_logical_and and _parse_logical_or.
ParseLayer(ts, i, layer) ==
    AndThen(ParseOperand(ts, i, layer), LAMBDA e :
        IF e.ok THEN ParseOperators(ts, e.node, e.i, layer) ELSE e)

_parse_factor(ts, i) == ParseLayer(ts, i, FactorLayer)

_parse_term(ts, i) == ParseLayer(ts, i, TermLayer)

_parse_comparison(ts, i) == ParseLayer(ts, i, ComparisonLayer)

_parse_equality(ts, i) == ParseLayer(ts, i, EqualityLayer)

_parse_logical_and(ts, i) == ParseLayer(ts, i, LogicalAndLayer)

_parse_logical_or(ts, i) == ParseLayer(ts, i, LogicalOrLayer)

\* An _parse_assign_or_equality that takes whatever stands left of the "="
\* for the target.
AssignToAnything(ts, i) ==
    AndThen(_parse_logical_or(ts, i), LAMBDA left :
        IF ~left.ok THEN left
        ELSE LET diag == s_diagnostics(ts, left.i)
             IN  IF s_eat(ts, left.i, Plain("EQUAL"))
                 THEN AndThen(_parse_assign_or_equality(ts, left.i + 1),
                              LAMBDA r :
                          IF ~r.ok THEN r
                          ELSE Parsed(WithDiag(Assignment(left.node.n, r.node),
                                         diag), r.i))
                 ELSE left)

\* An _parse_assign_or_equality that does not look for another "=" on
\* the right side.
AssignOnce(ts, i) ==
    AndThen(_parse_logical_or(ts, i), LAMBDA left :
        IF ~left.ok THEN left
        ELSE LET diag == s_diagnostics(ts, left.i)
             IN  IF s_eat(ts, left.i, Plain("EQUAL"))
                 THEN IF left.node.t # "Variable"
                      THEN ParserError("Invalid lvalue", diag)
                      ELSE AndThen(_parse_logical_or(ts, left.i + 1),
                                   LAMBDA r :
                               IF ~r.ok THEN r
                               ELSE Parsed(
                                   WithDiag(Assignment(left.node.n, r.node),
                                            diag), r.i))
                 ELSE left)

_parse_assign_or_equality(ts, i) ==
    AndThen(_parse_logical_or(ts, i), LAMBDA left :
        IF ~left.ok THEN left
        ELSE LET diag == s_diagnostics(ts, left.i)
             IN  IF s_eat(ts, left.i, Plain("EQUAL"))
                 THEN IF left.node.t # "Variable"
                      THEN ParserError("Invalid lvalue", diag)
                      ELSE AndThen(_parse_assign_or_equality(ts, left.i + 1),
                                   LAMBDA r :
                               IF ~r.ok THEN r
                               ELSE Parsed(
                                   WithDiag(Assignment(left.node.n, r.node),
                                            diag), r.i))
                 ELSE left)

parse_expression(ts, i) == _parse_assign_or_equality(ts, i)

_parse_print_stmt(ts, i) ==
    LET diag == s_diagnostics(ts, i)
        j == IF s_eat(ts, i, Plain("PRINT")) THEN i + 1 ELSE i
    IN  IF ~s_eat(ts, j, Plain("LPAREN"))
        THEN ParserError("Unexpected token, expected '('",
                         s_diagnostics(ts, j))
        ELSE AndThen(parse_expression(ts, j + 1), LAMBDA e :
                 IF ~e.ok THEN e
                 ELSE IF ~s_eat(ts, e.i, Plain("RPAREN"))
                 THEN ParserError(
                          "Missing closing parenthesis in print statement",
                          s_diagnostics(ts, e.i))
                 ELSE IF ~s_eat(ts, e.i + 1, Plain("SEMICOLON"))
                 THEN ParserError("Missing semicolon after print statement",
                                  s_diagnostics(ts, e.i + 1))
                 ELSE Parsed(WithDiag(PrintStmt(e.node), diag), e.i + 2))

\* The declaration of name with its initializer, if it has one; j is the
\* index of the name.
VarDeclValue(ts, j, name, diag) ==
    IF s_eat(ts, j + 1, Plain("EQUAL"))
    THEN AndThen(parse_expression(ts, j + 2), LAMBDA e :
             IF e.ok
             THEN Parsed(WithDiag(VarDecl(name, e.node), diag), e.i)
             ELSE e)
    ELSE Parsed(WithDiag(VarDeclNone(name), diag), j + 1)

_parse_var_decl(ts, i) ==
    LET diag == s_diagnostics(ts, i)
        j == IF s_eat(ts, i, Plain("VAR")) THEN i + 1 ELSE i
    IN  IF ~s_has_next(ts, j) THEN PeekStops
        ELSE IF s_peek(ts, j).c # "IDENT"
        THEN ParserError("Unexpected token", s_diagnostics(ts, j))
        ELSE AndThen(VarDeclValue(ts, j, s_peek(ts, j).n, diag), LAMBDA decl :
                 IF ~decl.ok THEN decl
                 ELSE IF ~s_eat(ts, decl.i, Plain("SEMICOLON"))
                 THEN ParserError(
                          "Missing semicolon after variable declaration",
                          s_diagnostics(ts, decl.i))
                 ELSE Parsed(decl.node, decl.i + 1))

_parse_if_statement(ts, i) ==
    LET diag == s_diagnostics(ts, i)
        j == IF s_eat(ts, i, Plain("IF")) THEN i + 1 ELSE i
    IN  IF ~s_eat(ts, j, Plain("LPAREN"))
        THEN ParserError("Expected '(' after 'if'", s_diagnostics(ts, j))
        ELSE AndThen(parse_expression(ts, j + 1), LAMBDA c :
                 IF ~c.ok THEN c
                 ELSE IF ~s_eat(ts, c.i, Plain("RPAREN"))
                 THEN ParserError("Expected ')' after if condition",
                                  s_diagnostics(ts, c.i))
                 ELSE AndThen(parse_statement(ts, c.i + 1), LAMBDA th :
                          IF ~th.ok THEN th
                          ELSE IF s_eat(ts, th.i, Plain("ELSE"))
                          THEN AndThen(parse_statement(ts, th.i + 1), LAMBDA el :
                                   IF ~el.ok THEN el
                                   ELSE Parsed(
                                       WithDiag(IfElseStmt(c.node, th.node,
                                                     el.node), diag),
                                       el.i))
                          ELSE Parsed(WithDiag(IfStmt(c.node, th.node), diag),
                                      th.i)))

_parse_while_statement(ts, i) ==
    LET diag == s_diagnostics(ts, i)
        j == IF s_eat(ts, i, Plain("WHILE")) THEN i + 1 ELSE i
    IN  IF ~s_eat(ts, j, Plain("LPAREN"))
        THEN ParserError("Expected '(' after 'while'", s_diagnostics(ts, j))
        ELSE AndThen(parse_expression(ts, j + 1), LAMBDA c :
                 IF ~c.ok THEN c
                 ELSE IF ~s_eat(ts, c.i, Plain("RPAREN"))
                 THEN ParserError("Expected ')' after while condition",
                                  s_diagnostics(ts, c.i))
                 ELSE AndThen(parse_statement(ts, c.i + 1), LAMBDA body :
                          IF ~body.ok THEN body
                          ELSE Parsed(WithDiag(WhileStmt(c.node, body.node), diag),
                                      body.i)))

\* What a part of the header of a for statement is: absent, or a node.
Absent(i) ==
    [ok |-> TRUE, node |-> WithDiag(Nil, NoDiag), i |-> i, exc |-> "",
     message |-> "", d |-> NoDiag, present |-> FALSE]

Present(r) ==
    [ok |-> r.ok, node |-> r.node, i |-> r.i, exc |-> r.exc,
     message |-> r.message, d |-> r.d, present |-> TRUE]

Result(r) ==
    [ok |-> r.ok, node |-> r.node, i |-> r.i, exc |-> r.exc,
     message |-> r.message, d |-> r.d]

\* The initializer of a for statement, with its semicolon.
ForInitializer(ts, i, diag) ==
    IF ~s_has_next(ts, i) THEN Present(PeekStops)
    ELSE IF s_peek(ts, i) = Plain("VAR")
    THEN AndThen(_parse_var_decl(ts, i), LAMBDA decl : Present(decl))
    ELSE IF s_peek(ts, i) # Plain("SEMICOLON")
    THEN AndThen(parse_expression(ts, i), LAMBDA e :
             IF ~e.ok THEN Present(e)
             ELSE IF ~s_eat(ts, e.i, Plain("SEMICOLON"))
             THEN Present(ParserError("Expected ';' after for initializer",
                                      s_diagnostics(ts, e.i)))
             ELSE Present(Parsed(WithDiag(ExprStmt(e.node), diag), e.i + 1)))
    ELSE Absent(i + 1)

\* The condition of a for statement, with its semicolon.
ForCondition(ts, i) ==
    IF s_eat(ts, i, Plain("SEMICOLON")) THEN Absent(i + 1)
    ELSE AndThen(parse_expression(ts, i), LAMBDA c :
             IF ~c.ok THEN Present(c)
             ELSE IF ~s_eat(ts, c.i, Plain("SEMICOLON"))
             THEN Present(ParserError(
                              "Expected ';' after for loop condition",
                              s_diagnostics(ts, c.i)))
             ELSE Present(Parsed(c.node, c.i + 1)))

\* The post-loop expression of a for statement.
ForPost(ts, i) ==
    IF ~s_has_next(ts, i) THEN Present(PeekStops)
    ELSE IF s_peek(ts, i) = Plain("RPAREN") THEN Absent(i)
    ELSE AndThen(parse_expression(ts, i), LAMBDA e : Present(e))

\* A desugaring that wraps the body of the loop in a block whether or not
\* there is a post-loop expression.
DesugarAlwaysWraps(init, cond, post, body, diag) ==
    LET condition == IF cond.present THEN cond.node ELSE WithDiag(TrueExpr, diag)
        wrapped == WithDiag(BlockStmt(<<body>>
                                \o IF post.present
                                   THEN <<WithDiag(ExprStmt(post.node), diag)>>
                                   ELSE <<>>), diag)
    IN  IF ~init.present /\ ~post.present
        THEN WithDiag(WhileStmt(condition, body), diag)
        ELSE WithDiag(BlockStmt((IF init.present THEN <<init.node>> ELSE <<>>)
                          \o <<WithDiag(WhileStmt(condition, wrapped), diag)>>),
                diag)

\* The statement a for statement is turned into.
Desugar(init, cond, post, body, diag) ==
    LET condition == IF cond.present THEN cond.node ELSE WithDiag(TrueExpr, diag)
        loopBody == IF post.present
                    THEN WithDiag(BlockStmt(<<body, WithDiag(ExprStmt(post.node), diag)>>),
                            diag)
                    ELSE body
    IN  IF ~init.present /\ ~post.present
        THEN WithDiag(WhileStmt(condition, body), diag)
        ELSE WithDiag(BlockStmt((IF init.present THEN <<init.node>> ELSE <<>>)
                          \o <<WithDiag(WhileStmt(condition, loopBody), diag)>>),
                diag)

_parse_for_statement(ts, i) ==
    LET diag == s_diagnostics(ts, i)
        j == IF s_eat(ts, i, Plain("FOR")) THEN i + 1 ELSE i
    IN  IF ~s_eat(ts, j, Plain("LPAREN"))
        THEN ParserError("Expected '(' after 'for'", s_diagnostics(ts, j))
        ELSE AndThen(ForInitializer(ts, j + 1, diag), LAMBDA init :
             IF ~init.ok THEN Result(init)
             ELSE AndThen(ForCondition(ts, init.i), LAMBDA cond :
                  IF ~cond.ok THEN Result(cond)
                  ELSE AndThen(ForPost(ts, cond.i), LAMBDA post :
                       IF ~post.ok
                       THEN Result(post)
                       ELSE IF ~s_eat(ts, post.i, Plain("RPAREN"))
                       THEN ParserError(
                                "Missing ')' in for statement header",
                                s_diagnostics(ts, post.i))
                       ELSE AndThen(parse_statement(ts, post.i + 1),
                                    LAMBDA body :
                                IF ~body.ok THEN body
                                ELSE Parsed(
                                    Desugar(init, cond, post,
                                            body.node, diag),
                                    body.i)))))

parse_statement(ts, i) ==
    LET diag == s_diagnostics(ts, i)
    IN  IF ~s_has_next(ts, i) THEN PeekStops
        ELSE CASE s_peek(ts, i).c = "PRINT" -> _parse_print_stmt(ts, i)
               [] s_peek(ts, i).c = "LBRACE" -> _parse_block_stmt(ts, i)
               [] s_peek(ts, i).c = "IF" -> _parse_if_statement(ts, i)
               [] s_peek(ts, i).c = "WHILE" -> _parse_while_statement(ts, i)
               [] s_peek(ts, i).c = "FOR" -> _parse_for_statement(ts, i)
               [] OTHER ->
                    AndThen(parse_expression(ts, i), LAMBDA e :
                        IF ~e.ok THEN e
                        ELSE IF ~s_eat(ts, e.i, Plain("SEMICOLON"))
                        THEN ParserError(
                                 "Missing semicolon after expression statement",
                                 s_diagnostics(ts, e.i))
                        ELSE Parsed(WithDiag(ExprStmt(e.node), diag), e.i + 1))

_parse_declaration(ts, i) ==
    IF ~s_has_next(ts, i) THEN PeekStops
    ELSE IF s_peek(ts, i).c = "VAR" THEN _parse_var_decl(ts, i)
    ELSE parse_statement(ts, i)

\* The declarations parsed up to the token of class stop or the end of the
\* stream: while tokens.has_next() and tokens.peek() != stop.  In a block
\* an EOF token raises.
ParseDeclarations(ts, i, declarations, stop) ==
    IF ~s_has_next(ts, i) \/ s_peek(ts, i) = Plain(stop)
    THEN Parsed(WithDiag(BlockStmt(declarations), NoDiag), i)
    ELSE IF stop = "RBRACE" /\ s_peek(ts, i) = Plain("EOF")
    THEN ParserError("Expected '}' after block", s_diagnostics(ts, i))
    ELSE AndThen(_parse_declaration(ts, i), LAMBDA decl :
             IF ~decl.ok THEN decl
             ELSE ParseDeclarations(ts, decl.i,
                                    Append(declarations, decl.node), stop))

_parse_block_stmt(ts, i) ==
    LET diag == s_diagnostics(ts, i)
        j == IF s_eat(ts, i, Plain("LBRACE")) THEN i + 1 ELSE i
    IN  AndThen(ParseDeclarations(ts, j, <<>>, "RBRACE"), LAMBDA decls :
            IF ~decls.ok THEN decls
            ELSE IF ~s_eat(ts, decls.i, Plain("RBRACE"))
            THEN ParserError("Expected '}' after block",
                             s_diagnostics(ts, decls.i))
            ELSE Parsed(WithDiag(BlockStmt(decls.node.kids), diag), decls.i + 1))

\* What parse_program does: it returns Program(decls) or raises.
Program(declarations) ==
    [status |-> "ok", decls |-> declarations, message |-> "", d |-> NoDiag]

ProgramRaises(r) ==
    [status |-> r.exc, decls |-> <<>>, message |-> r.message, d |-> r.d]

parse_program_result(ts) ==
    IF s_eat(ts, 1, Plain("EOF")) THEN Program(<<>>)
    ELSE AndThen(ParseDeclarations(ts, 1, <<>>, "EOF"), LAMBDA decls :
             IF ~decls.ok THEN ProgramRaises(decls)
             ELSE IF ~s_has_next(ts, decls.i)
             THEN ProgramRaises(ParserError(
                      "Unexpected end of input, expected EOF",
                      s_diagnostics(ts, decls.i)))
             ELSE IF ~s_eat(ts, decls.i, Plain("EOF"))
             THEN ProgramRaises(ParserError(
                      "Unexpected token; expected end-of-file",
                      s_diagnostics(ts, decls.i)))
             ELSE Program(decls.node.kids))

\* The width of the text of a token.
Width(tok) ==
    CASE tok.c = "NUMBER" -> IF tok.v < 10 THEN 1 ELSE 2
      [] tok.c = "IDENT" -> 1
      [] tok.c = "STRING" -> 3
      [] tok.c \in {"LPAREN", "RPAREN", "LBRACE", "RBRACE", "COMMA", "DOT",
                    "MINUS", "PLUS", "SEMICOLON", "SLASH", "STAR", "BANG",
                    "EQUAL", "LESS", "GREATER"} -> 1
      [] tok.c \in {"BANG_EQUAL", "EQUAL_EQUAL", "LESS_EQUAL",
                    "GREATER_EQUAL", "OR", "IF"} -> 2
      [] tok.c \in {"AND", "FOR", "NIL", "VAR", "FUN"} -> 3
      [] tok.c \in {"ELSE", "TRUE", "THIS"} -> 4
      [] tok.c \in {"FALSE", "PRINT", "WHILE", "CLASS", "SUPER"} -> 5
      [] tok.c = "RETURN" -> 6
      [] tok.c = "EOF" -> 0
      [] tok.c = "ScannerError" -> 1

RECURSIVE Col(_, _)
\* The column of the k-th token of a source text of one line in which one
\* space separates the tokens; the EOF token is at the end of the text.
Col(toks, k) ==
    IF k = 1 THEN 1
    ELSE Col(toks, k - 1) + Width(toks[k - 1])
         + (IF toks[k].c = "EOF" THEN 0 ELSE 1)

\* The stream the token generator yields for that text: every token with
\* the position of its first character.
Layout(toks) ==
    [k \in 1..Len(toks) |->
        TokenWithContext(toks[k], Diagnostics(1, Col(toks, k)))]

\* Most binary operators in a generated expression.
MaxOperators == 3

\* Most targets in a generated chain of assignments.
MaxTargets == 3

BinaryOperatorTokens ==
    {"OR", "AND", "EQUAL_EQUAL", "BANG_EQUAL", "LESS", "LESS_EQUAL",
     "GREATER", "GREATER_EQUAL", "PLUS", "MINUS", "STAR", "SLASH"}

RECURSIVE ChainFrom(_, _)
ChainFrom(ops, k) ==
    IF ops = <<>> THEN <<>>
    ELSE <<Plain(Head(ops)), NUMBER(k)>> \o ChainFrom(Tail(ops), k + 1)

\* 1 op 2 op 3 ...: operands joined by the operators ops.
Chain(ops) == <<NUMBER(1)>> \o ChainFrom(ops, 2)

EndOfStatement == <<Plain("SEMICOLON"), Plain("EOF")>>

\* Every expression statement of at most MaxOperators binary operators
\* between numbers, and test_precedence_without_parentheses.
ChainInputs ==
    {Chain(ops) \o EndOfStatement :
        ops \in UNION {[1..n -> BinaryOperatorTokens] : n \in 0..MaxOperators}}
    \cup {Chain(<<"PLUS", "STAR", "MINUS", "SLASH">>) \o EndOfStatement}

TargetNames == <<"a", "b", "c", "d", "e">>

\* The right sides of the generated assignments.
AssignedValues ==
    {<<NUMBER(1)>>, <<IDENT("d")>>, <<NUMBER(1), Plain("PLUS"), NUMBER(2)>>,
     <<Plain("LPAREN"), IDENT("z"), Plain("RPAREN")>>}

RECURSIVE Targets(_)
\* a = b = ... for the first n names
Targets(n) ==
    IF n = 0 THEN <<>>
    ELSE Targets(n - 1) \o <<IDENT(TargetNames[n]), Plain("EQUAL")>>

\* x1 = x2 = ... = xn = e ; for at most MaxTargets targets.
AssignInputs ==
    {Targets(n) \o e \o EndOfStatement :
        n \in 1..MaxTargets, e \in AssignedValues}

\* Expressions that are not a bare variable.
NonVariables ==
    {<<NUMBER(3)>>, <<STRING_("s")>>, <<Plain("TRUE")>>, <<Plain("FALSE")>>,
     <<Plain("NIL")>>, <<Plain("LPAREN"), IDENT("a"), Plain("RPAREN")>>,
     <<Plain("MINUS"), IDENT("a")>>, <<Plain("BANG"), IDENT("a")>>}
    \cup {<<NUMBER(3), Plain(op), IDENT("a")>> : op \in BinaryOperatorTokens}
    \cup {<<IDENT("a"), Plain(op), IDENT("b")>> : op \in BinaryOperatorTokens}

\* The places in which the generated assignments to a non-variable stand:
\* a statement, the right side of an assignment, a grouping, the
\* initializer of a declaration and the argument of print.
LvalueContexts ==
    {[before |-> <<>>, after |-> <<Plain("SEMICOLON")>>],
     [before |-> <<IDENT("x"), Plain("EQUAL")>>,
      after |-> <<Plain("SEMICOLON")>>],
     [before |-> <<Plain("LPAREN")>>,
      after |-> <<Plain("RPAREN"), Plain("SEMICOLON")>>],
     [before |-> <<Plain("VAR"), IDENT("x"), Plain("EQUAL")>>,
      after |-> <<Plain("SEMICOLON")>>],
     [before |-> <<Plain("PRINT"), Plain("LPAREN")>>,
      after |-> <<Plain("RPAREN"), Plain("SEMICOLON")>>]}

\* L = 5 for every non-variable L, in every context.
LvalueInputs ==
    {c.before \o left \o <<Plain("EQUAL"), NUMBER(5)>> \o c.after
     \o <<Plain("EOF")>> : c \in LvalueContexts, left \in NonVariables}

\* The parts of the generated for statements, with the syntax trees their
\* tokens stand for.
NoPart == [present |-> FALSE, toks |-> <<>>, ast |-> Nil]

Part(toks, ast) == [present |-> TRUE, toks |-> toks, ast |-> ast]

ForInits ==
    {NoPart,
     Part(<<Plain("VAR"), IDENT("i"), Plain("EQUAL"), NUMBER(1),
            Plain("SEMICOLON")>>, VarDecl("i", Number(1))),
     Part(<<Plain("VAR"), IDENT("i"), Plain("SEMICOLON")>>, VarDeclNone("i")),
     Part(<<IDENT("i"), Plain("EQUAL"), NUMBER(1), Plain("SEMICOLON")>>,
          ExprStmt(Assignment("i", Number(1))))}

ForConds ==
    {NoPart,
     Part(<<IDENT("i"), Plain("LESS"), NUMBER(2)>>,
          LessThanExpr(Variable("i"), Number(2))),
     Part(<<Plain("FALSE")>>, FalseExpr)}

ForPosts ==
    {NoPart,
     Part(<<IDENT("i"), Plain("EQUAL"), IDENT("i"), Plain("PLUS"),
            NUMBER(1)>>,
          Assignment("i", Add(Variable("i"), Number(1)))),
     Part(<<IDENT("i")>>, Variable("i"))}

ForBodies ==
    {Part(<<Plain("PRINT"), Plain("LPAREN"), IDENT("i"), Plain("RPAREN"),
            Plain("SEMICOLON")>>, PrintStmt(Variable("i"))),
     Part(<<Plain("LBRACE"), IDENT("i"), Plain("SEMICOLON"),
            Plain("RBRACE")>>, BlockStmt(<<ExprStmt(Variable("i"))>>)),
     Part(<<IDENT("i"), Plain("SEMICOLON")>>, ExprStmt(Variable("i")))}

\* for ( init ; cond ; post ) body
ForTokens(init, cond, post, body) ==
    <<Plain("FOR"), Plain("LPAREN")>>
    \o (IF init.present THEN init.toks ELSE <<Plain("SEMICOLON")>>)
    \o cond.toks \o <<Plain("SEMICOLON")>>
    \o post.toks \o <<Plain("RPAREN")>>
    \o body.toks \o <<Plain("EOF")>>

ForInputs ==
    {ForTokens(init, cond, post, body) :
        init \in ForInits, cond \in ForConds, post \in ForPosts,
        body \in ForBodies}

\* test_lonely_plus: 1 + ( + 2 )
LonelyPlus ==
    <<NUMBER(1), Plain("PLUS"), Plain("LPAREN"), Plain("PLUS"), NUMBER(2),
      Plain("RPAREN"), Plain("EOF")>>

\* test_unclosed_parenthesis: 1 + ( 2 * ( 3 - 9 )
UnclosedParenthesis ==
    <<NUMBER(1), Plain("PLUS"), Plain("LPAREN"), NUMBER(2), Plain("STAR"),
      Plain("LPAREN"), NUMBER(3), Plain("MINUS"), NUMBER(9), Plain("RPAREN"),
      Plain("EOF")>>

\* nil != true ;
NilNotEqualTrue ==
    <<Plain("NIL"), Plain("BANG_EQUAL"), Plain("TRUE")>> \o EndOfStatement

\* test_dangling_else: if ( a ) if ( b ) c ; else d ;
DanglingElse ==
    <<Plain("IF"), Plain("LPAREN"), IDENT("a"), Plain("RPAREN"), Plain("IF"),
      Plain("LPAREN"), IDENT("b"), Plain("RPAREN"), IDENT("c"),
      Plain("SEMICOLON"), Plain("ELSE"), IDENT("d"), Plain("SEMICOLON"),
      Plain("EOF")>>

\* while ( ! a ) { var b = - 1 ; print ( "s" ) ; }
WhileBlock ==
    <<Plain("WHILE"), Plain("LPAREN"), Plain("BANG"), IDENT("a"),
      Plain("RPAREN"), Plain("LBRACE"), Plain("VAR"), IDENT("b"),
      Plain("EQUAL"), Plain("MINUS"), NUMBER(1), Plain("SEMICOLON"),
      Plain("PRINT"), Plain("LPAREN"), STRING_("s"), Plain("RPAREN"),
      Plain("SEMICOLON"), Plain("RBRACE"), Plain("EOF")>>

\* Token sequences that end in an error: test_if_without_then,
\* test_missing_variable_name, an unclosed block, a missing semicolon, a
\* for statement without its parenthesis, and streams without an EOF token.
ErrorInputs ==
    {<<Plain("IF"), Plain("LPAREN"), Plain("TRUE"), Plain("RPAREN"),
       Plain("SEMICOLON"), Plain("EOF")>>,
     <<Plain("VAR"), Plain("EQUAL"), NUMBER(10), Plain("SEMICOLON"),
       Plain("EOF")>>,
     <<Plain("LBRACE"), IDENT("a"), Plain("SEMICOLON"), Plain("EOF")>>,
     <<Plain("PRINT"), Plain("LPAREN"), IDENT("a"), Plain("RPAREN"),
       Plain("EOF")>>,
     <<Plain("FOR"), Plain("SEMICOLON"), Plain("EOF")>>,
     <<Plain("FOR"), Plain("LPAREN")>>,
     <<Plain("IF"), Plain("LPAREN"), IDENT("a"), Plain("RPAREN")>>,
     <<Plain("VAR")>>,
     <<NUMBER(1), Plain("SEMICOLON")>>,
     <<NUMBER(1), Plain("SEMICOLON"), Plain("RBRACE"), Plain("EOF")>>,
     <<>>}

\* The token streams parse_program is called on.
ParserInputs ==
    {Layout(toks) :
        toks \in ChainInputs \cup AssignInputs \cup LvalueInputs
                 \cup ForInputs \cup ErrorInputs
                 \cup {LonelyPlus, UnclosedParenthesis, NilNotEqualTrue,
                       DanglingElse, WhileBlock, <<Plain("EOF")>>}}

\* parse_program has not been called.
NotParsed == [status |-> "none", decls |-> <<>>, message |-> "", d |-> NoDiag]

\* evaluate_expression has not been called.
NotEvaluated == Raises("none", <<>>)

\* No parser is in use.
parse_program_unused ==
    /\ ptoks = <<>>
    /\ parsed = NotParsed
    /\ evaluated = NotEvaluated

\* A token stream is handed to the parser.
parse_program_init ==
    /\ ptoks \in ParserInputs
    /\ parsed = NotParsed
    /\ evaluated = NotEvaluated

\* parse_program(tokens)
parse_program ==
    /\ parsed = NotParsed
    /\ parsed' = parse_program_result(ptoks)
    /\ UNCHANGED <<ptoks, evaluated, bufVars, interpVars, charVars, lexVars>>

-----------------------------------------------------------------------------
(* Expressions evaluated from their tokens, as _evaluate(s) of              *)
(* test_expression_evaluator.py does: evaluate_expression(                  *)
(* parse_expression(tokens), {}).                                           *)

\* What the call returns or raises; a ParserError leaves before the
\* evaluation.
evaluate_result(ts) ==
    AndThen(parse_expression(ts, 1), LAMBDA e :
        IF e.ok
        THEN evaluate_expression(e.node, <<EmptyScope>>)
        ELSE [ok |-> FALSE, val |-> None, err |-> e.exc,
              scopes |-> <<EmptyScope>>, diag |-> e.d])

\* The operands of the generated expressions: literals of every type, a
\* sum, unary expressions, a name that is not defined and a sum that
\* raises.
Operands ==
    {<<NUMBER(0)>>, <<NUMBER(1)>>, <<NUMBER(2)>>, <<STRING_("s")>>,
     <<STRING_("t")>>, <<Plain("TRUE")>>, <<Plain("FALSE")>>, <<Plain("NIL")>>,
     <<Plain("LPAREN"), NUMBER(1), Plain("PLUS"), NUMBER(2), Plain("RPAREN")>>,
     <<Plain("BANG"), Plain("FALSE")>>,
     <<Plain("MINUS"), NUMBER(1)>>,
     <<IDENT("x")>>,
     <<Plain("LPAREN"), NUMBER(1), Plain("PLUS"), Plain("NIL"),
       Plain("RPAREN")>>}

\* test_error_position_in_complex_expressions: true == ((1 + 2) * 3)
TrueEqualsProduct ==
    <<Plain("TRUE"), Plain("EQUAL_EQUAL"), Plain("LPAREN"), Plain("LPAREN"),
      NUMBER(1), Plain("PLUS"), NUMBER(2), Plain("RPAREN"), Plain("STAR"),
      NUMBER(3), Plain("RPAREN")>>

\* test_error_position_in_complex_expressions:
\* 1 + ((true != false) == !false)
OnePlusEquality ==
    <<NUMBER(1), Plain("PLUS"), Plain("LPAREN"), Plain("LPAREN"),
      Plain("TRUE"), Plain("BANG_EQUAL"), Plain("FALSE"), Plain("RPAREN"),
      Plain("EQUAL_EQUAL"), Plain("BANG"), Plain("FALSE"), Plain("RPAREN")>>

\* left op right for every pair of operands and every binary operator, the
\* operands alone, and the two tests.
EvaluateInputs ==
    {Layout(toks) :
        toks \in {l \o <<Plain(op)>> \o r :
                    l \in Operands, r \in Operands,
                    op \in BinaryOperatorTokens}
                 \cup Operands
                 \cup {TrueEqualsProduct, OnePlusEquality}}

\* A token stream is handed to parse_expression.
evaluate_init ==
    /\ ptoks \in EvaluateInputs
    /\ parsed = NotParsed
    /\ evaluated = NotEvaluated

\* evaluate_expression(parse_expression(tokens), {})
evaluate ==
    /\ evaluated = NotEvaluated
    /\ evaluated' = evaluate_result(ptoks)
    /\ UNCHANGED <<ptoks, parsed, bufVars, interpVars, charVars, lexVars>>

-----------------------------------------------------------------------------
(* interpret() from the tokens of its code on: parse_program over the      *)
(* token stream, then the loop over the declarations of the Program.       *)

\* A slot of the token buffer that holds the ScannerError the token
\* generator raised: no rule of the parser accepts it, and the call that
\* reaches it raises.
ScannerErrorSlot == Plain("ScannerError")

\* The statements of the generated codes.
\* var x = 1 ;
VarXStatement ==
    <<Plain("VAR"), IDENT("x"), Plain("EQUAL"), NUMBER(1), Plain("SEMICOLON")>>

\* print ( x ) ;
PrintXStatement ==
    <<Plain("PRINT"), Plain("LPAREN"), IDENT("x"), Plain("RPAREN"),
      Plain("SEMICOLON")>>

\* x = 2 ;
AssignXStatement == <<IDENT("x"), Plain("EQUAL"), NUMBER(2), Plain("SEMICOLON")>>

\* { var y = 2 ; print ( y ) ; }
BlockStatement ==
    <<Plain("LBRACE"), Plain("VAR"), IDENT("y"), Plain("EQUAL"), NUMBER(2),
      Plain("SEMICOLON"), Plain("PRINT"), Plain("LPAREN"), IDENT("y"),
      Plain("RPAREN"), Plain("SEMICOLON"), Plain("RBRACE")>>

\* if ( true ) print ( 1 ) ; else print ( 2 ) ;
IfStatement ==
    <<Plain("IF"), Plain("LPAREN"), Plain("TRUE"), Plain("RPAREN"),
      Plain("PRINT"), Plain("LPAREN"), NUMBER(1), Plain("RPAREN"),
      Plain("SEMICOLON"), Plain("ELSE"), Plain("PRINT"), Plain("LPAREN"),
      NUMBER(2), Plain("RPAREN"), Plain("SEMICOLON")>>

\* while ( false ) print ( 1 ) ;
WhileStatement ==
    <<Plain("WHILE"), Plain("LPAREN"), Plain("FALSE"), Plain("RPAREN"),
      Plain("PRINT"), Plain("LPAREN"), NUMBER(1), Plain("RPAREN"),
      Plain("SEMICOLON")>>

Statements ==
    {VarXStatement, PrintXStatement, AssignXStatement, BlockStatement,
     IfStatement, WhileStatement}

\* What the parser or the token generator rejects: print ( + ) ; an unclosed
\* block, a declaration without a name, a statement without its semicolon,
\* and a text the token generator cannot scan.
\* print ( + ) ;
PrintPlus ==
    <<Plain("PRINT"), Plain("LPAREN"), Plain("PLUS"), Plain("RPAREN"),
      Plain("SEMICOLON")>>

Rejected ==
    {PrintPlus,
     <<Plain("LBRACE"), Plain("PRINT"), Plain("LPAREN"), NUMBER(1),
       Plain("RPAREN"), Plain("SEMICOLON")>>,
     <<Plain("VAR"), Plain("EQUAL"), NUMBER(1), Plain("SEMICOLON")>>,
     <<Plain("PRINT"), Plain("LPAREN"), NUMBER(1), Plain("RPAREN")>>,
     <<ScannerErrorSlot>>}

\* The codes: up to two statements, and an error before, between or after
\* them.
CodeInputs ==
    {Layout(toks) :
        toks \in {s1 \o s2 \o <<Plain("EOF")>> :
                     s1, s2 \in Statements \cup {<<>>}}
                 \cup {s1 \o e \o s2 \o <<Plain("EOF")>> :
                          s1, s2 \in Statements \cup {<<>>}, e \in Rejected}}

\* The exception interpret() ends with when parse_program does not return
\* a Program: the ScannerError of the slot parse_program stopped at, or
\* the exception parse_program raised.
RaisedByParser(ts, p) ==
    IF \E k \in 1..Len(ts) : ts[k].t = ScannerErrorSlot /\ ts[k].d = p.d
    THEN "ScannerError"
    ELSE p.status

\* An interpret() that executes the first declaration of its code as soon
\* as it is parsed, before the rest of the code is.
interpret_as_parsed(ts) ==
    /\ status = "idle"
    /\ calls < MaxCalls
    /\ calls' = calls + 1
    /\ ptoks' = ts
    /\ parsed' = parse_program_result(ts)
    /\ scopes0' = scopes
    /\ output' = <<>>
    /\ LET first == _parse_declaration(ts, 1)
       IN  IF first.ok
           THEN /\ prog' = <<first.node>>
                /\ ctrl' = <<Frame(<<first.node>>, FALSE)>>
                /\ status' = "running"
                /\ error' = ""
           ELSE /\ prog' = <<>>
                /\ ctrl' = <<>>
                /\ status' = "raised"
                /\ error' = first.exc
    /\ UNCHANGED <<scopes, evaluated, bufVars, charVars, lexVars>>

\* Interpreter.interpret over the tokens ts of its code: parse_program
\* returns a Program and the loop over its declarations begins, or it
\* raises and interpret() raises with it.
interpret_code(ts) ==
    /\ status = "idle"
    /\ calls < MaxCalls
    /\ calls' = calls + 1
    /\ ptoks' = ts
    /\ parsed' = parse_program_result(ts)
    /\ scopes0' = scopes
    /\ output' = <<>>
    /\ IF parsed'.status = "ok"
       THEN /\ prog' = parsed'.decls
            /\ ctrl' = <<Frame(parsed'.decls, FALSE)>>
            /\ status' = "running"
            /\ error' = ""
       ELSE /\ prog' = <<>>
            /\ ctrl' = <<>>
            /\ status' = "raised"
            /\ error' = RaisedByParser(ts, parsed')
    /\ UNCHANGED <<scopes, evaluated, bufVars, charVars, lexVars>>

-----------------------------------------------------------------------------
(* The specifications. *)

\* No BufferedIterator is in use: one over an empty producer.
BufferedIterator_unused ==
    /\ source = <<>>
    /\ bufsize = 1
    /\ buffer = <<>>
    /\ iter = <<>>
    /\ last = NoCall
    /\ consumed = <<>>

\* A BufferedIterator under arbitrary calls; nothing else runs.
InitBuffer ==
    /\ BufferedIterator_init
    /\ Interpreter_init
    /\ CharReader_unused
    /\ token_generator_unused
    /\ parse_program_unused

NextBuffer ==
    \/ has_next
    \/ next
    \/ \E pos \in -1..MaxBufsize : can_peek(pos)
    \/ \E pos \in -1..MaxBufsize : peek(pos)
    \/ \E val \in 1..NumVals : eat(val)

SpecBuffer == InitBuffer /\ [][NextBuffer]_vars

\* An Interpreter under repeated interpret() calls; the buffer variables
\* stay those of a BufferedIterator over an empty producer.
InitInterp ==
    /\ Interpreter_init
    /\ BufferedIterator_unused
    /\ CharReader_unused
    /\ token_generator_unused
    /\ parse_program_unused

NextInterp ==
    \/ \E p \in Programs : interpret(p)
    \/ \E e \in {"ScannerError", "ParserError"} : interpret_rejects(e)
    \/ prompt
    \/ interpret_VarDecl
    \/ interpret_PrintStmt
    \/ interpret_ExprStmt
    \/ interpret_BlockStmt
    \/ BlockStmt_finally
    \/ interpret_IfStmt
    \/ interpret_no_case
    \/ return
    \/ propagate

SpecInterp == InitInterp /\ [][NextInterp]_vars

\* Either a BufferedIterator or a CharReader, read to its end by next()
\* and eat().
InitBounded ==
    /\ Interpreter_init
    /\ token_generator_unused
    /\ parse_program_unused
    /\ \/ BufferedIterator_init /\ CharReader_unused
       \/ BufferedIterator_unused /\ CharReader_init

NextBounded ==
    \/ next
    \/ \E val \in 1..NumVals : eat(val)
    \/ CharReader_next

SpecBounded == InitBounded /\ [][NextBounded]_vars

\* token_generator over a character stream, resumed until it returns or
\* raises.
InitLexer ==
    /\ token_generator_init
    /\ reader = CharReader(<<>>, 1)
    /\ rout = <<>>
    /\ Interpreter_init
    /\ parse_program_unused

NextLexer ==
    \/ token_generator_skip
    \/ token_generator_scan

SpecLexer == InitLexer /\ [][NextLexer]_vars

\* parse_program on a token stream.
InitParser ==
    /\ parse_program_init
    /\ Interpreter_init
    /\ BufferedIterator_unused
    /\ CharReader_unused
    /\ token_generator_unused

NextParser == parse_program

SpecParser == InitParser /\ [][NextParser]_vars

\* evaluate_expression on the expression of a token stream.
InitEvaluate ==
    /\ evaluate_init
    /\ Interpreter_init
    /\ BufferedIterator_unused
    /\ CharReader_unused
    /\ token_generator_unused

NextEvaluate == evaluate

SpecEvaluate == InitEvaluate /\ [][NextEvaluate]_vars

\* One Interpreter instance on which interpret() is called with codes, a
\* call parsing its code and then executing the Program.
InitPipeline ==
    /\ Interpreter_init
    /\ parse_program_unused
    /\ BufferedIterator_unused
    /\ CharReader_unused
    /\ token_generator_unused

NextPipeline ==
    \/ \E ts \in CodeInputs : interpret_code(ts)
    \/ prompt
    \/ interpret_VarDecl
    \/ interpret_PrintStmt
    \/ interpret_ExprStmt
    \/ interpret_BlockStmt
    \/ BlockStmt_finally
    \/ interpret_IfStmt
    \/ interpret_no_case
    \/ return
    \/ propagate

SpecPipeline == InitPipeline /\ [][NextPipeline]_vars

-----------------------------------------------------------------------------
(* Properties of the BufferedIterator, checked under SpecBuffer. *)

\* The number of elements the producer yields before its first raise.
NValid(s) == Cardinality({i \in 1..Len(s) : \A j \in 1..i : s[j].kind = "val"})

HasError(s) == \E i \in 1..Len(s) : s[i].kind = "err"

\* C1: producer errors are deferred.  With a producer that yields n
\* elements and then raises, the k-th slot taken from the buffer, k <= n,
\* is the producer's k-th element and a next() that takes it returns it
\* without raising, whatever the refill met; a producer error is raised only
\* by the call that requests the slot holding it: by the next() that pops
\* it, after every earlier slot was taken, or by a peek()/eat() that reads
\* it where it lies in the buffer.
C1_ErrorsDeferred ==
    /\ \A k \in 1..Len(consumed) :
           k <= NValid(source) => consumed[k] = source[k]
    /\ (/\ last.op = "next"
        /\ HasError(source)
        /\ Len(consumed) >= 1
        /\ Len(consumed) <= NValid(source))
       => last.out = source[Len(consumed)] /\ last.out.kind = "val"
    /\ last.out.kind = "err" =>
          \/ /\ last.op = "next"
             /\ Len(consumed) = last.out.v
             /\ source[last.out.v] = last.out
          \/ /\ last.op = "peek"
             /\ last.arg + 1 <= Len(buffer)
             /\ buffer[last.arg + 1] = last.out
          \/ /\ last.op = "eat"
             /\ buffer # <<>>
             /\ Head(buffer) = last.out

\* The case of test_raises_exception_at_right_point, one element longer: the
\* second next() has returned the second element while the refill has
\* already put the producer's error into the buffer.
C1_Witness ==
    /\ bufsize = 1
    /\ source = <<Val(1), Val(2), Err(3)>>
    /\ last = [op |-> "next", arg |-> 0, out |-> Val(2)]
    /\ buffer = <<Err(3)>>

\* C7: can_peek(k) returns, for 0 <= k < bufsize, whether the buffer holds at
\* least k+1 slots, and fails with ValueError for k < 0 and k >= bufsize
\* whatever the buffer holds.
C7_CanPeek ==
    last.op = "can_peek" =>
        IF 0 <= last.arg /\ last.arg < bufsize
        THEN last.out = Bool(Len(buffer) >= last.arg + 1)
        ELSE last.out = ValueError

\* can_peek(bufsize) on a full buffer is still an invalid argument.
C7_Witness ==
    /\ last.op = "can_peek"
    /\ last.arg = bufsize
    /\ Len(buffer) = bufsize
    /\ last.out = ValueError

\* C8 as stated: eat(value) returns true and consumes exactly the head when
\* the head equals value, and in every other case returns false and leaves
\* the buffer unchanged.
C8_EatAsStated ==
    [][last'.op = "eat" =>
         IF buffer # <<>> /\ Head(buffer) = Val(last'.arg)
         THEN /\ last'.out = Bool(TRUE)
              /\ consumed' = Append(consumed, Head(buffer))
              /\ SubSeq(buffer', 1, Len(buffer) - 1) = Tail(buffer)
         ELSE /\ last'.out = Bool(FALSE)
              /\ buffer' = buffer
              /\ iter' = iter
              /\ consumed' = consumed]_vars

\* C8, amended: eat(value) returns true and consumes exactly the head when
\* the head slot holds an element equal to value; it returns false and
\* leaves the buffer unchanged when the buffer is empty or the head slot
\* holds an element different from value; when the head slot holds a
\* deferred producer error it raises that error and leaves the buffer
\* unchanged.
C8_Eat ==
    [][last'.op = "eat" =>
         IF buffer # <<>> /\ Head(buffer) = Val(last'.arg)
         THEN /\ last'.out = Bool(TRUE)
              /\ consumed' = Append(consumed, Head(buffer))
              /\ SubSeq(buffer', 1, Len(buffer) - 1) = Tail(buffer)
         ELSE /\ IF buffer # <<>> /\ Head(buffer).kind = "err"
                 THEN last'.out = Head(buffer)
                 ELSE last'.out = Bool(FALSE)
              /\ buffer' = buffer
              /\ iter' = iter
              /\ consumed' = consumed]_vars

\* eat(2) has consumed the head element 2 and the element behind it is now
\* the head.
C8_Witness ==
    /\ last = [op |-> "eat", arg |-> 2, out |-> Bool(TRUE)]
    /\ consumed # <<>>
    /\ consumed[Len(consumed)] = Val(2)
    /\ buffer # <<>>

\* C9: next() on a head slot holding a deferred error raises that error and
\* consumes the slot: the slots behind it move up, the buffer is refilled
\* from the producer, the error is nowhere in the buffer afterwards, and it
\* was not raised by an earlier next().
C9_NextConsumesError ==
    [][(last'.op = "next" /\ buffer # <<>> /\ Head(buffer).kind = "err") =>
          /\ last'.out = Head(buffer)
          /\ consumed' = Append(consumed, Head(buffer))
          /\ \A i \in 1..Len(consumed) : consumed[i] # Head(buffer)
          /\ \A i \in 1..Len(buffer') : buffer'[i] # Head(buffer)
          /\ SubSeq(buffer', 1, Len(buffer) - 1) = Tail(buffer)
          /\ buffer' \o iter' = Tail(buffer) \o iter
          /\ (Len(buffer') = bufsize \/ iter' = <<>>)]_vars

\* next() has raised the producer's error, and the buffer already holds what
\* the producer delivered after it.
C9_Witness ==
    /\ last.op = "next"
    /\ last.out.kind = "err"
    /\ consumed[Len(consumed)] = last.out
    /\ buffer # <<>>

\* C10: peek(k) changes neither the buffer nor the producer.  For
\* 0 <= k < bufsize it returns the (k+1)-th slot's element, or raises the
\* deferred error that slot holds, and fails with StopIteration when fewer
\* than k+1 slots are buffered; a next() right after peek(0) returns or
\* raises what the peek did.
C10_PeekPure ==
    [][/\ last'.op = "peek" =>
            /\ buffer' = buffer
            /\ iter' = iter
            /\ consumed' = consumed
            /\ (0 <= last'.arg /\ last'.arg < bufsize) =>
                  IF Len(buffer) >= last'.arg + 1
                  THEN last'.out = buffer[last'.arg + 1]
                  ELSE last'.out = StopIteration
       /\ (/\ last.op = "peek"
           /\ last.arg = 0
           /\ last.out.kind \in {"val", "err"}
           /\ last'.op = "next") => last'.out = last.out]_vars

\* peek(1) has raised the deferred error of the second slot, which is still
\* in the buffer.
C10_Witness ==
    /\ last.op = "peek"
    /\ last.arg = 1
    /\ last.out.kind = "err"
    /\ Len(buffer) = 2
    /\ buffer[2] = last.out

\* C11: whatever calls are made, the slots taken by next() and by
\* successful eat() calls are the producer's deliveries in the producer's
\* order, none lost, duplicated or reordered: what was taken, what is
\* buffered and what the producer still holds are together the producer's
\* sequence; a call takes a slot only when it is a next() on a non-empty
\* buffer or an eat() that returns true, and then exactly the next one; and
\* has_next() returns false exactly when a next() right after it raises
\* StopIteration.
C11_OrderPreserved ==
    [][/\ consumed' \o buffer' \o iter' = source'
       /\ consumed' # consumed =>
              /\ consumed' = Append(consumed, source[Len(consumed) + 1])
              /\ \/ last'.op = "next"
                 \/ last'.op = "eat" /\ last'.out = Bool(TRUE)
       /\ (last'.op = "next" /\ buffer # <<>>) => consumed' # consumed
       /\ (last'.op = "eat" /\ last'.out = Bool(TRUE)) => consumed' # consumed
       /\ (last.op = "has_next" /\ last'.op = "next") =>
              ((last.out = Bool(FALSE)) <=> (last'.out = StopIteration))]_vars

\* A producer of three elements has been taken in full through a buffer of
\* two slots, by next() and eat() calls, and has_next() has returned false.
C11_Witness ==
    /\ bufsize = 2
    /\ source = <<Val(1), Val(2), Val(1)>>
    /\ consumed = source
    /\ last = [op |-> "has_next", arg |-> 0, out |-> Bool(FALSE)]

\* The smaller of two numbers.
Min(a, b) == IF a < b THEN a ELSE b

RECURSIVE TotalLen(_)
\* The number of characters of a sequence of lines.
TotalLen(ls) == IF ls = <<>> THEN 0 ELSE Len(Head(ls)) + TotalLen(Tail(ls))

\* C12: the buffer of a BufferedIterator and of a CharReader never holds
\* more than bufsize elements, and after construction and after every
\* next() it holds min(bufsize, what the producer still had): it is full
\* until the producer is exhausted.
C12_BoundedBuffer ==
    /\ Len(buffer) <= bufsize
    /\ Len(buffer) = Min(bufsize, Len(source) - Len(consumed))
    /\ Len(reader.buffer) <= reader.bufsize
    /\ Len(reader.buffer) = Min(reader.bufsize, TotalLen(lines) - Len(rout))

\* A CharReader with two slots, half way through its second line after an
\* empty first line, holds the last character only.
C12_Witness ==
    /\ reader.bufsize = 2
    /\ Len(lines) = 2
    /\ lines[1] = <<>>
    /\ Len(rout) = 1
    /\ Len(reader.buffer) = 1
    /\ TotalLen(lines) = 2

-----------------------------------------------------------------------------
(* Properties of the Interpreter, checked under SpecInterp. *)

\* The blocks whose execution has begun and not ended.
OpenBlocks == {i \in 1..Len(ctrl) : ctrl[i].block}

\* Whether an assignment occurs anywhere in a syntax tree.
RECURSIVE HasAssignment(_)
HasAssignment(node) ==
    \/ node.t = "Assignment"
    \/ \E i \in 1..Len(node.kids) : HasAssignment(node.kids[i])

\* Scope i is the innermost scope of sc that binds name.
IsInnermostBinding(sc, i, name) ==
    /\ i \in 1..Len(sc)
    /\ sc[i][name] # Unbound
    /\ \A j \in (i + 1)..Len(sc) : sc[j][name] = Unbound

\* sc and after differ at most in the binding of name in scope i.
SameExcept(sc, after, i, name) ==
    /\ Len(after) = Len(sc)
    /\ \A j \in 1..Len(sc) : \A m \in Names :
           (j # i \/ m # name) => after[j][m] = sc[j][m]

\* C2: the scope stack holds the global scope and one scope per block being
\* executed, at any nesting depth and also while an error propagates, so a
\* block leaves the depth as it found it; when interpret() has returned or
\* raised, the stack holds exactly the global scope.
C2_ScopeDiscipline ==
    /\ Len(scopes) = 1 + Cardinality(OpenBlocks)
    /\ status \in {"idle", "returned", "raised"} =>
           ctrl = <<>> /\ Len(scopes) = 1

\* An error raised two blocks deep has propagated out of interpret() and
\* only the global scope is left.
C2_Witness ==
    /\ prog = DeepErrorProgram
    /\ status = "raised"
    /\ error = "TypeError"
    /\ Len(scopes) = 1

\* What a call that prints one variable shows: the binding the name had in
\* the global scope when the call began.
PrintSeesEarlierBinding ==
    \A n \in Names :
        (prog = <<PrintStmt(Variable(n))>> /\ status \in {"returned", "raised"})
        => IF scopes0[1][n] = Unbound
           THEN status = "raised" /\ error = "VariableError"
           ELSE status = "returned" /\ output = <<scopes0[1][n]>>

\* A call begins with the bindings the earlier calls left.
CallStartsFromEarlierBindings ==
    (status = "running" /\ ctrl = <<Frame(prog, FALSE)>>) => scopes = scopes0

\* C3 as stated: after a call that raised, the bindings are those of before
\* the call, and later calls see the variables of earlier calls.
C3_AsStated ==
    /\ status = "raised" => scopes = scopes0
    /\ CallStartsFromEarlierBindings
    /\ PrintSeesEarlierBinding

\* C3, amended: after a call that raised a scanner or parser error the
\* bindings are those of before the call; after a call that raised while
\* executing, nothing is rolled back, every name bound before the call is
\* still bound and the stack is the one global scope; a later call begins
\* with the bindings the earlier calls left and sees their variables.
C3_ErrorIsolation ==
    /\ (status = "raised" /\ error \in {"ScannerError", "ParserError"})
           => scopes = scopes0
    /\ status = "raised" =>
           /\ Len(scopes) = 1
           /\ \A n \in Names :
                  scopes0[1][n] # Unbound => scopes[1][n] # Unbound
    /\ CallStartsFromEarlierBindings
    /\ PrintSeesEarlierBinding

\* The second call on the instance has raised a TypeError after it changed
\* a variable an earlier call had declared.
C3_Witness ==
    /\ calls = 2
    /\ status = "raised"
    /\ error = "TypeError"
    /\ scopes0[1]["x"] # Unbound
    /\ scopes[1]["x"] # Unbound
    /\ scopes[1]["x"] # scopes0[1]["x"]

\* C4: a VarDecl binds its name in the innermost scope and, the effects of
\* assignments inside its initialiser apart, changes nothing else, so no
\* outer binding of the name; printing a variable prints the value of the
\* innermost scope that binds it; leaving a block, normally or by an error,
\* removes the innermost scope alone, so a name shadowed in the block has
\* its outer binding again:
\* var x = 1; { var x = 2; print(x); } print(x); prints 2 then 1.
C4_ShadowRestore ==
    [][/\ (At("VarDecl") /\ status' = "running") =>
            /\ Len(scopes') = Len(scopes)
            /\ scopes'[Len(scopes)][Cur.n] # Unbound
            /\ ~HasAssignment(Cur) =>
                   SameExcept(scopes, scopes', Len(scopes), Cur.n)
            /\ Cur.kids = <<>> => scopes'[Len(scopes)][Cur.n] = None
            /\ (Cur.kids # <<>> /\ Cur.kids[1].t = "Number") =>
                   scopes'[Len(scopes)][Cur.n] = Float(Cur.kids[1].v, 1)
       /\ (/\ At("PrintStmt")
           /\ Cur.kids[1].t = "Variable"
           /\ \E i \in 1..Len(scopes) : scopes[i][Cur.kids[1].n] # Unbound) =>
              \E i \in 1..Len(scopes) :
                  /\ IsInnermostBinding(scopes, i, Cur.kids[1].n)
                  /\ status' = "running"
                  /\ output' = Append(output, scopes[i][Cur.kids[1].n])
       /\ (/\ ctrl # <<>>
           /\ Top.block
           /\ \/ status = "raising"
              \/ status = "running" /\ Top.decls = <<>>) =>
              scopes' = SubSeq(scopes, 1, Len(scopes) - 1)
       /\ (prog' = BlockScopingProgram /\ status' = "returned") =>
              output' = <<Float(2, 1), Float(1, 1)>>]_vars

\* The block-scoping program has printed the inner value and then the outer
\* one, and the global x is still the outer binding.
C4_Witness ==
    /\ prog = BlockScopingProgram
    /\ status = "returned"
    /\ output = <<Float(2, 1), Float(1, 1)>>
    /\ scopes = <<[EmptyScope EXCEPT !["x"] = Float(1, 1)]>>

\* C5: an assignment n = e to a bound name n, e holding no assignment of
\* its own, changes the binding of n in the innermost scope that binds n and
\* nothing else (no new binding, no other name, no other scope); the new
\* value is the value of e, and it is the value of the assignment (what
\* print(n = e) prints); after x = y = v both x and y are v.
C5_Assignment ==
    [][/\ (/\ At("ExprStmt") \/ At("PrintStmt")
           /\ Cur.kids[1].t = "Assignment"
           /\ ~HasAssignment(Cur.kids[1].kids[1])
           /\ \E i \in 1..Len(scopes) : scopes[i][Cur.kids[1].n] # Unbound
           /\ status' = "running") =>
              \E i \in 1..Len(scopes) :
                 LET n == Cur.kids[1].n
                     rhs == Cur.kids[1].kids[1]
                 IN  /\ IsInnermostBinding(scopes, i, n)
                     /\ SameExcept(scopes, scopes', i, n)
                     /\ scopes'[i][n] # Unbound
                     /\ rhs.t = "Number" => scopes'[i][n] = Float(rhs.v, 1)
                     /\ rhs.t = "Nil" => scopes'[i][n] = None
                     /\ rhs.t = "Variable" =>
                            \E j \in 1..Len(scopes) :
                                /\ IsInnermostBinding(scopes, j, rhs.n)
                                /\ scopes'[i][n] = scopes[j][rhs.n]
                     /\ At("PrintStmt") =>
                            output' = Append(output, scopes'[i][n])
       /\ (/\ At("ExprStmt")
           /\ Cur.kids[1].t = "Assignment"
           /\ Cur.kids[1].kids[1].t = "Assignment"
           /\ Cur.kids[1].kids[1].kids[1].t = "Number"
           /\ status' = "running") =>
              \E i, j \in 1..Len(scopes) :
                 /\ IsInnermostBinding(scopes', i, Cur.kids[1].n)
                 /\ IsInnermostBinding(scopes', j, Cur.kids[1].kids[1].n)
                 /\ scopes'[i][Cur.kids[1].n] =
                        Float(Cur.kids[1].kids[1].kids[1].v, 1)
                 /\ scopes'[j][Cur.kids[1].kids[1].n] =
                        Float(Cur.kids[1].kids[1].kids[1].v, 1)
                 /\ \A k \in 1..Len(scopes) : \A m \in Names :
                        (scopes'[k][m] = Unbound) <=> (scopes[k][m] = Unbound)
       /\ (prog' = NestedAssignmentProgram /\ status' = "returned") =>
              scopes' = <<[n \in Names |-> Float(2, 1)]>>]_vars

\* var x; var y; x = y = 2; has returned with x and y both 2.
C5_Witness ==
    /\ prog = NestedAssignmentProgram
    /\ status = "returned"
    /\ scopes[1]["x"] = Float(2, 1)
    /\ scopes[1]["y"] = Float(2, 1)

\* C6 as stated: with a initialised to 1,
\* while (a <= 3) { print(a); a = a + 1; } prints 1, 2, 3 in that order and
\* terminates (a is the model's x).
C6_WhileLoop ==
    (prog = WhileLoopProgram /\ status = "returned") =>
        /\ output = <<Float(1, 1), Float(2, 1), Float(3, 1)>>
        /\ scopes[1]["x"] = Float(4, 1)


-----------------------------------------------------------------------------
(* Properties of token_generator, checked under SpecLexer. *)

\* The characters the stream has not given out yet.
Rest == [i \in 1..(Len(buffer) + Len(iter)) |-> (buffer \o iter)[i].v.char]

\* The classes and fields of the tokens yielded so far.
Yielded == [i \in 1..Len(tokens) |-> tokens[i].t]

\* C13: before each token is scanned, whitespace and // comments have been
\* skipped in any alternation, so the character the dispatch of _scan_token
\* sees is never whitespace and never the start of a // comment; a comment
\* line followed by an indented token yields that token and no error.
C13_DispatchSeesToken ==
    /\ lexpc = "scan" =>
        /\ Rest # <<>>
        /\ Rest[1] \notin Whitespace
        /\ ~(Len(Rest) >= 2 /\ Rest[1] = "/" /\ Rest[2] = "/")
    /\ (lines = CommentThenIndent /\ lexpc \in {"done", "raised"}) =>
        /\ lexpc = "done"
        /\ Yielded = <<IDENT(<<"a">>)>>

RECURSIVE DigitRun(_)
\* The digits a text begins with.
DigitRun(chars) ==
    IF chars # <<>> /\ Head(chars) \in Digits
    THEN <<Head(chars)>> \o DigitRun(Tail(chars))
    ELSE <<>>

C15_EndsWithEOF ==
    lexpc = "done" =>
        /\ tokens # <<>>
        /\ Yielded[Len(tokens)] = Plain("EOF")
        /\ \A i \in 1..(Len(tokens) - 1) : Yielded[i] # Plain("EOF")


-----------------------------------------------------------------------------
(* Properties of parse_program, checked under SpecParser. *)

\* The tokens of the stream, without their positions.
Toks == [k \in 1..Len(ptoks) |-> ptoks[k].t]

RECURSIVE Strip(_)
\* A syntax tree without its diag fields.
Strip(node) ==
    Node(node.t, node.n, node.v,
         [k \in 1..Len(node.kids) |-> Strip(node.kids[k])])

\* The binary operators: the class of the node, the class of the token and
\* how tightly the operator binds.
Operators ==
    {[node |-> "LogicalOr", tok |-> "OR", binds |-> 1],
     [node |-> "LogicalAnd", tok |-> "AND", binds |-> 2],
     [node |-> "EqualEqualExpr", tok |-> "EQUAL_EQUAL", binds |-> 3],
     [node |-> "NotEqualExpr", tok |-> "BANG_EQUAL", binds |-> 3],
     [node |-> "LessThanExpr", tok |-> "LESS", binds |-> 4],
     [node |-> "LessEqualExpr", tok |-> "LESS_EQUAL", binds |-> 4],
     [node |-> "GreaterThanExpr", tok |-> "GREATER", binds |-> 4],
     [node |-> "GreaterEqualExpr", tok |-> "GREATER_EQUAL", binds |-> 4],
     [node |-> "Add", tok |-> "PLUS", binds |-> 5],
     [node |-> "Subtract", tok |-> "MINUS", binds |-> 5],
     [node |-> "Mult", tok |-> "STAR", binds |-> 6],
     [node |-> "Div", tok |-> "SLASH", binds |-> 6]}

IsBinary(node) == \E o \in Operators : o.node = node.t

OperatorOf(node) == CHOOSE o \in Operators : o.node = node.t

\* How tightly the top of an expression binds; an operand binds tightest.
Binds(node) == IF IsBinary(node) THEN OperatorOf(node).binds ELSE 7

RECURSIVE InOrder(_)
\* The tokens of a tree of binary operators over numbers, left to right.
InOrder(node) ==
    IF IsBinary(node)
    THEN InOrder(node.kids[1]) \o <<Plain(OperatorOf(node).tok)>>
         \o InOrder(node.kids[2])
    ELSE <<NUMBER(node.v)>>

RECURSIVE FoldsLeft(_)
\* Under every operator, the left operand binds at least as tightly as the
\* operator and the right operand binds more tightly.
FoldsLeft(node) ==
    IsBinary(node) =>
        /\ Binds(node.kids[1]) >= Binds(node)
        /\ Binds(node.kids[2]) > Binds(node)
        /\ FoldsLeft(node.kids[1])
        /\ FoldsLeft(node.kids[2])

\* C16: every sequence of operands and binary operators parses to the tree
\* over exactly these tokens in which each layer folds left and a tighter
\* layer binds before a looser one; 1 - 2 - 3 parses as ((1 - 2) - 3) and
\* 1 + 2 * 3 - 4 / 5 as ((1 + (2 * 3)) - (4 / 5)).
C16_PrecedenceAndAssociativity ==
    (parsed # NotParsed /\ Toks \in ChainInputs) =>
        /\ parsed.status = "ok"
        /\ Len(parsed.decls) = 1
        /\ parsed.decls[1].t = "ExprStmt"
        /\ LET e == parsed.decls[1].kids[1]
           IN  /\ InOrder(e) \o EndOfStatement = Toks
               /\ FoldsLeft(e)
               /\ Toks = Chain(<<"MINUS", "MINUS">>) \o EndOfStatement =>
                    Strip(e) = Subtract(Subtract(Number(1), Number(2)),
                                        Number(3))
               /\ Toks = Chain(<<"PLUS", "STAR", "MINUS", "SLASH">>)
                         \o EndOfStatement =>
                    Strip(e) = Subtract(Add(Number(1),
                                            Mult(Number(2), Number(3))),
                                        Div(Number(4), Number(5)))

\* 1 + 2 * 3 - 4 / 5 ; has been parsed.
C16_Witness ==
    /\ Toks = Chain(<<"PLUS", "STAR", "MINUS", "SLASH">>) \o EndOfStatement
    /\ parsed.status = "ok"
    /\ parsed.decls[1].kids[1].t = "Subtract"

\* The syntax trees of the right sides of the generated assignments.
ValueTree(e) ==
    CASE e = <<NUMBER(1)>> -> Number(1)
      [] e = <<IDENT("d")>> -> Variable("d")
      [] e = <<NUMBER(1), Plain("PLUS"), NUMBER(2)>> ->
            Add(Number(1), Number(2))
      [] e = <<Plain("LPAREN"), IDENT("z"), Plain("RPAREN")>> ->
            Grouping(Variable("z"))

RECURSIVE AssignFrom(_, _, _)
\* Assignment(xk, Assignment(xk+1, ... Assignment(xn, value)))
AssignFrom(k, n, value) ==
    IF k > n THEN value
    ELSE Assignment(TargetNames[k], AssignFrom(k + 1, n, value))

\* C17: a chain x1 = x2 = ... = xn = e parses as Assignment(x1,
\* Assignment(x2, ... Assignment(xn, e))), for every number of targets; so
\* a = b = c = d parses as ( = a ( = b ( = c d ) ) ).
C17_AssignmentRightAssociative ==
    \A n \in 1..MaxTargets, e \in AssignedValues :
        (/\ parsed # NotParsed
         /\ Toks = Targets(n) \o e \o EndOfStatement) =>
            /\ parsed.status = "ok"
            /\ Len(parsed.decls) = 1
            /\ Strip(parsed.decls[1])
               = ExprStmt(AssignFrom(1, n, ValueTree(e)))

\* a = b = c = d ; has been parsed.
C17_Witness ==
    /\ Toks = Targets(3) \o <<IDENT("d")>> \o EndOfStatement
    /\ parsed.status = "ok"
    /\ parsed.decls[1].kids[1].kids[1].kids[1].t = "Assignment"

\* C18: when what has been parsed to the left of an "=" is not a bare
\* variable (a literal, a binary expression, a unary expression, a variable
\* in parentheses), wherever the assignment stands, parse_program raises
\* ParserError "Invalid lvalue" and returns no tree.
C18_InvalidLvalue ==
    (parsed # NotParsed /\ Toks \in LvalueInputs) =>
        /\ parsed.status = "ParserError"
        /\ parsed.message = "Invalid lvalue"
        /\ parsed.decls = <<>>

\* 3 + a = 5 ; has been rejected.
C18_Witness ==
    /\ Toks = <<NUMBER(3), Plain("PLUS"), IDENT("a"), Plain("EQUAL"),
                NUMBER(5)>> \o EndOfStatement
    /\ parsed.status = "ParserError"

\* C19: for (init; cond; post) body with neither init nor post becomes
\* WhileStmt(cond or true, body); otherwise it becomes a BlockStmt of init,
\* when present, and one WhileStmt whose condition is cond, or true, and
\* whose body is BlockStmt[body, ExprStmt(post)] when post is present and
\* body itself when it is not.
C19_ForDesugaring ==
    \A init \in ForInits, cond \in ForConds, post \in ForPosts,
       body \in ForBodies :
        (/\ parsed # NotParsed
         /\ Toks \in ForInputs
         /\ Toks = ForTokens(init, cond, post, body)) =>
            LET condition == IF cond.present THEN cond.ast ELSE TrueExpr
                loopBody == IF post.present
                            THEN BlockStmt(<<body.ast, ExprStmt(post.ast)>>)
                            ELSE body.ast
                loop == WhileStmt(condition, loopBody)
            IN  /\ parsed.status = "ok"
                /\ Len(parsed.decls) = 1
                /\ Strip(parsed.decls[1])
                   = IF ~init.present /\ ~post.present
                     THEN WhileStmt(condition, body.ast)
                     ELSE IF init.present
                     THEN BlockStmt(<<init.ast, loop>>)
                     ELSE BlockStmt(<<loop>>)

\* A for statement with an initializer, a condition and no post-loop
\* expression has been parsed: a block of the initializer and the loop.
C19_Witness ==
    /\ Toks = ForTokens(
                  Part(<<IDENT("i"), Plain("EQUAL"), NUMBER(1),
                         Plain("SEMICOLON")>>,
                       ExprStmt(Assignment("i", Number(1)))),
                  Part(<<Plain("FALSE")>>, FalseExpr),
                  NoPart,
                  Part(<<IDENT("i"), Plain("SEMICOLON")>>,
                       ExprStmt(Variable("i"))))
    /\ parsed.status = "ok"
    /\ parsed.decls[1].t = "BlockStmt"
    /\ parsed.decls[1].kids[2].kids[2].t = "ExprStmt"

\* The index in the stream of the token at a position.
IndexAt(diag) == CHOOSE k \in 1..Len(ptoks) : ptoks[k].d = diag

HasToken(diag) == \E k \in 1..Len(ptoks) : ptoks[k].d = diag

ClassAt(diag) == ptoks[IndexAt(diag)].t.c

RECURSIVE Begin(_)
\* The index of the token at which a construct begins: an operation's is
\* that of its left operand, an assignment's the name before its "=", and
\* any other construct's the token of its anchor.
Begin(node) ==
    IF IsBinary(node) THEN Begin(node.kids[1])
    ELSE IF node.t = "Assignment" THEN IndexAt(node.d) - 1
    ELSE IndexAt(node.d)

\* The classes of the tokens at which the constructs of each class begin; a
\* loop, a block and a true made from a for statement begin at its "for".
BeginClasses(t) ==
    CASE t = "Number" -> {"NUMBER"}
      [] t = "String" -> {"STRING"}
      [] t = "TrueExpr" -> {"TRUE", "FOR"}
      [] t = "FalseExpr" -> {"FALSE"}
      [] t = "Nil" -> {"NIL"}
      [] t = "Variable" -> {"IDENT"}
      [] t = "Grouping" -> {"LPAREN"}
      [] t = "Negative" -> {"MINUS"}
      [] t = "LogicalNot" -> {"BANG"}
      [] t = "PrintStmt" -> {"PRINT"}
      [] t = "VarDecl" -> {"VAR"}
      [] t = "IfStmt" -> {"IF"}
      [] t = "WhileStmt" -> {"WHILE", "FOR"}
      [] t = "BlockStmt" -> {"LBRACE", "FOR"}
      [] t = "Assignment" -> {"EQUAL"}
      [] OTHER -> {}

RECURSIVE Anchored(_)
\* Whether a node and all the nodes under it carry the position the claim
\* gives them: an operation and an assignment that of their operator, which
\* stands right before the right operand, an expression statement that of
\* the first token of its expression, and any other node that of the token
\* its construct begins with.
Anchored(node) ==
    /\ HasToken(node.d)
    /\ \A k \in 1..Len(node.kids) : Anchored(node.kids[k])
    /\ IF IsBinary(node)
       THEN /\ ClassAt(node.d) = OperatorOf(node).tok
            /\ Begin(node.kids[2]) = IndexAt(node.d) + 1
       ELSE IF node.t = "ExprStmt"
       THEN IndexAt(node.d) = Begin(node.kids[1])
       ELSE IF node.t = "Assignment"
       THEN /\ ClassAt(node.d) = "EQUAL"
            /\ Begin(node.kids[1]) = IndexAt(node.d) + 1
       ELSE ClassAt(node.d) \in BeginClasses(node.t)

\* C20: every node of the tree carries the position of the token at which
\* the parsing of its construct began, and a binary operation that of its
\* operator; the illegal start in 1 + ( + 2 ) is reported at column 7 and
\* the operation of nil != true is anchored at column 5.
C20_DiagnosticAnchors ==
    /\ parsed.status = "ok" =>
        \A k \in 1..Len(parsed.decls) : Anchored(parsed.decls[k])
    /\ (Toks = LonelyPlus /\ parsed # NotParsed) =>
        /\ parsed.status = "ParserError"
        /\ parsed.message = "Illegal start of expression"
        /\ parsed.d = Diagnostics(1, 7)
    /\ (Toks = NilNotEqualTrue /\ parsed # NotParsed) =>
        /\ parsed.status = "ok"
        /\ parsed.decls[1].kids[1].d = Diagnostics(1, 5)


-----------------------------------------------------------------------------
(* Properties of the evaluation of expressions. *)

\* The position of the k-th token of the stream.
PositionOf(k) == ptoks[k].d

\* C21: == and != evaluate both operands, so an operand that raises makes
\* the comparison raise the same error, the left one first; when the two
\* values are of different kinds (number, string, bool, nil) they raise a
\* TypeError that carries the position of the operator; when the kinds
\* agree they return whether the values are equal, or are not.  In
\* true == ((1 + 2) * 3) the error is at column 6, the position of ==.
C21_EqualityTypeError ==
    evaluated # NotEvaluated =>
      /\ Toks = TrueEqualsProduct =>
            /\ ~evaluated.ok
            /\ evaluated.err = "TypeError"
            /\ evaluated.diag = Diagnostics(1, 6)
      /\ \A op \in {"EQUAL_EQUAL", "BANG_EQUAL"} : \A l, r \in Operands :
              Toks = l \o <<Plain(op)>> \o r =>
                LET x == evaluate_result(Layout(l))
                    y == evaluate_result(Layout(r))
                IN  IF ~x.ok THEN ~evaluated.ok /\ evaluated.err = x.err
                    ELSE IF ~y.ok THEN ~evaluated.ok /\ evaluated.err = y.err
                    ELSE IF x.val.k # y.val.k
                    THEN /\ ~evaluated.ok
                         /\ evaluated.err = "TypeError"
                         /\ evaluated.diag = PositionOf(Len(l) + 1)
                    ELSE /\ evaluated.ok
                         /\ evaluated.val =
                                PyBool((x.val = y.val) = (op = "EQUAL_EQUAL"))

\* nil != true has raised a TypeError at column 5.
C21_Witness ==
    /\ Toks = <<Plain("NIL"), Plain("BANG_EQUAL"), Plain("TRUE")>>
    /\ ~evaluated.ok
    /\ evaluated.err = "TypeError"
    /\ evaluated.diag = Diagnostics(1, 5)

\* C22: + applied to two string values evaluates to their concatenation,
\* and + or - with a number on one side and a value that is not a number
\* on the other raises a TypeError.
C22_StringConcatenation ==
    evaluated # NotEvaluated =>
      \A op \in {"PLUS", "MINUS"} : \A l, r \in Operands :
          Toks = l \o <<Plain(op)>> \o r =>
            LET x == evaluate_result(Layout(l))
                y == evaluate_result(Layout(r))
            IN  x.ok /\ y.ok =>
                  /\ (op = "PLUS" /\ x.val.k = "str" /\ y.val.k = "str") =>
                        /\ evaluated.ok
                        /\ evaluated.val = Str(x.val.s \o y.val.s)
                  /\ ((x.val.k = "float") # (y.val.k = "float")) =>
                        /\ ~evaluated.ok
                        /\ evaluated.err = "TypeError"

\* C23: a division whose divisor evaluates to zero raises the interpreter's
\* own DivisionByZeroError, which is neither a TypeError nor the
\* platform's arithmetic fault, and no platform fault escapes
\* evaluate_expression.
C23_DivisionByZeroError ==
    evaluated # NotEvaluated =>
      /\ evaluated.err # "ZeroDivisionError"
      /\ \A l, r \in Operands :
            Toks = l \o <<Plain("SLASH")>> \o r =>
              LET x == evaluate_result(Layout(l))
                  y == evaluate_result(Layout(r))
              IN  (x.ok /\ y.ok /\ x.val.k = "float" /\ y.val = Float(0, 1)) =>
                    /\ ~evaluated.ok
                    /\ evaluated.err = "DivisionByZeroError"

\* C24: every LogicalAnd and LogicalOr node the parser produces evaluates
\* to a value that combines its operands by the truthiness rule, and
\* evaluating such a node never fails as an unknown kind of expression.
C24_LogicalOperators ==
    evaluated # NotEvaluated =>
      \A op \in {"AND", "OR"} : \A l, r \in Operands :
          Toks = l \o <<Plain(op)>> \o r =>
            LET x == evaluate_result(Layout(l))
                y == evaluate_result(Layout(r))
            IN  /\ evaluated.err # "RuntimeError"
                /\ (x.ok /\ y.ok) =>
                      /\ evaluated.ok
                      /\ IsTruthy(evaluated.val) =
                            IF op = "AND"
                            THEN IsTruthy(x.val) /\ IsTruthy(y.val)
                            ELSE IsTruthy(x.val) \/ IsTruthy(y.val)

-----------------------------------------------------------------------------
(* Properties of one call of interpret(). *)

\* The declarations of the program that the loop of interpret() has not
\* started yet.
NotStarted == IF ctrl = <<>> THEN <<>> ELSE ctrl[1].decls

\* C25: within one interpret() call the declarations execute in program
\* order and the first one that raises ends the call.  The loop of
\* interpret() starts a declaration only when everything the declarations
\* before it began has ended, and it starts the one that follows; once a
\* declaration has raised, the call only unwinds: nothing more is printed,
\* the scopes pushed by the blocks being left are popped and no binding
\* changes, and the call ends raising that error.
C25_FirstErrorEndsCall ==
    [][/\ status = "running" =>
            \/ NotStarted' = NotStarted
            \/ /\ Len(ctrl) = 1
               /\ NotStarted # <<>>
               /\ NotStarted' = Tail(NotStarted)
       /\ status = "raising" =>
            /\ status' \in {"raising", "raised"}
            /\ error' = error
            /\ output' = output
            /\ prog' = prog
            /\ scopes' \in {scopes, _pop_scope(scopes)}
       /\ status = "raised" => status' \in {"raised", "idle"}
      ]_vars

\* Where x is bound, the program (1 + nil after x = 1); print(x); has
\* raised in its first statement, and nothing has been printed.
C25_Witness ==
    /\ status = "raised"
    /\ error = "TypeError"
    /\ prog = <<ExprStmt(Add(Grouping(Assignment("x", Number(1))), Nil)),
                PrintStmt(Variable("x"))>>
    /\ scopes = <<[EmptyScope EXCEPT !["x"] = Float(1, 1)]>>
    /\ output = <<>>

-----------------------------------------------------------------------------
(* Properties of the CharReader's diagnostics. *)

\* The line and the column, both counted from 1, of the k-th character of
\* the lines ls, the first of which is line number line_no.
RECURSIVE Locate(_, _, _)
Locate(ls, k, line_no) ==
    IF k <= Len(Head(ls)) THEN ArrowAt(line_no, k)
    ELSE Locate(Tail(ls), k - Len(Head(ls)), line_no + 1)

\* C26: the diagnostic for the next character is, while input remains, the
\* line and the column of the head character; once the input is exhausted
\* it is one column past the last character read, on that character's
\* line; and it is the placeholder when the input was empty from the
\* start.
C26_DiagnosticForNextCharacter ==
    LET diag == CharReader_diagnostic_string(reader)
        last_read == Locate(lines, Len(rout), 1)
    IN  /\ reader.buffer # <<>> => diag = Locate(lines, Len(rout) + 1, 1)
        /\ (reader.buffer = <<>> /\ rout # <<>>) =>
               diag = ArrowAt(last_read.line_no, last_read.col_no + 1)
        /\ (reader.buffer = <<>> /\ rout = <<>>) =>
               diag = CantDeterminePosition

\* The number of characters of the lines ls.
RECURSIVE CharCount(_)
CharCount(ls) == IF ls = <<>> THEN 0 ELSE Len(Head(ls)) + CharCount(Tail(ls))

\* C27: in the pipeline that interpret() builds, the lexer has the two
\* characters of lookahead it needs: whenever at least two characters of
\* the input remain, can_peek(1) is true on the character stream.
C27_TwoCharacterLookahead ==
    (/\ interpret_CharReader(lines).bufsize = reader.bufsize
     /\ CharCount(lines) - Len(rout) >= 2)
        => CharReader_can_peek(reader, 1)

\* C29: an assignment to a name that is bound in no scope raises
\* VariableError before its right-hand side is evaluated: the statement
\* that evaluates it raises, no assignment nested in the right-hand side
\* has taken effect, no binding has been created, and the scope stack is
\* as it was.
C29_AssignmentToUndeclared ==
    [][(/\ status = "running"
        /\ ctrl # <<>>
        /\ Top.decls # <<>>
        /\ Cur.t \in {"ExprStmt", "PrintStmt", "VarDecl"}
        /\ Cur.kids # <<>>
        /\ Cur.kids[1].t = "Assignment"
        /\ \A k \in 1..Len(scopes) : scopes[k][Cur.kids[1].n] = Unbound)
        => /\ status' = "raising"
           /\ error' = "VariableError"
           /\ scopes' = scopes
           /\ output' = output
      ]_vars

\* Where only y is bound, to 1, the statement x = y = 2; has raised
\* VariableError and y is still 1.
C29_Witness ==
    /\ status = "raising"
    /\ error = "VariableError"
    /\ ctrl # <<>>
    /\ Top.decls # <<>>
    /\ Cur = ExprStmt(Assignment("x", Assignment("y", Number(2))))
    /\ scopes = <<[EmptyScope EXCEPT !["y"] = Float(1, 1)]>>

-----------------------------------------------------------------------------
(* Properties of interpret() over the tokens of its code. *)

\* C28: interpret() parses its whole code into a Program before it
\* executes any declaration: a call whose code has a scanner or parser
\* error anywhere, even after valid statements, has raised, has printed
\* nothing and has left every scope as it was before the call.
C28_ParseBeforeExecute ==
    (status # "idle" /\ parse_program_result(ptoks).status # "ok") =>
        /\ status = "raised"
        /\ error \in {"ParserError", "ScannerError", "StopIteration"}
        /\ output = <<>>
        /\ scopes = scopes0

\* Where x is 1, the call on x = 2 ; print ( + ) ; has raised a ParserError and
\* x is still 1.
C28_Witness ==
    /\ ptoks = Layout(AssignXStatement \o PrintPlus \o <<Plain("EOF")>>)
    /\ status = "raised"
    /\ error = "ParserError"
    /\ output = <<>>
    /\ scopes = <<[EmptyScope EXCEPT !["x"] = Float(1, 1)]>>

-----------------------------------------------------------------------------
(* Properties of eat() on a deferred error, checked under SpecBuffer. *)

\* C30: eat(value) on a head slot that holds a deferred producer error
\* raises that error, returning neither true nor false, and leaves the
\* buffer and the producer as they were: the error stays at the head, and
\* the peek() or next() that follows raises it again.
C30_EatRaisesDeferredError ==
    [][/\ (last'.op = "eat" /\ buffer # <<>> /\ Head(buffer).kind = "err") =>
            /\ last'.out = Head(buffer)
            /\ last'.out \notin {Bool(TRUE), Bool(FALSE)}
            /\ buffer' = buffer
            /\ iter' = iter
            /\ consumed' = consumed
       /\ (/\ last.op = "eat"
           /\ last.out.kind = "err"
           /\ \/ last'.op = "next"
              \/ last'.op = "peek" /\ last'.arg = 0) =>
            last'.out = last.out
      ]_vars

\* eat(1) has raised the producer's error, which is still the head slot of
\* the buffer.
C30_Witness ==
    /\ last.op = "eat"
    /\ last.arg = 1
    /\ last.out.kind = "err"
    /\ buffer # <<>>
    /\ Head(buffer) = last.out
    /\ consumed = <<>>

====
